---- MODULE Spec2Model ----
(***************************************************************************)
(* QR content encoding of tep3/qr-code: the PromptPay (EMVCo Merchant      *)
(* Presented Mode) payload builder in its two revisions,                   *)
(*   src/src/util/qr-encoder.ts          (imported by the API routes), and *)
(*   src/src/service/qr-generator.ts     (the copy kept beside the         *)
(*                                         compositor, prefixed svc_ here).*)
(* JavaScript strings are TLA+ strings, JavaScript numbers are counted in   *)
(* thousandths.                                                            *)
(***************************************************************************)
EXTENDS Integers, Sequences, FiniteSets, TLC

\* `const v = e; ...`: e is evaluated once and its value handed to F
Const(e, F(_)) == CHOOSE r \in {F(v) : v \in {e}} : TRUE

\* ------------------------- JavaScript string primitives -----------------

\* Printable ASCII in code-point order: 32..95, and 97..126.
AsciiLow == " !\"#$%&'()*+,-./0123456789:;<=>?@ABCDEFGHIJKLMNOPQRSTUVWXYZ[\\]^_"
AsciiHigh == "abcdefghijklmnopqrstuvwxyz{|}~"

\* the characters a..b of s (1-based, inclusive), clipped to the string
Slice(s, a, b) ==
  IF a > b \/ a > Len(s) \/ b < 1 THEN ""
  ELSE SubSeq(s, IF a < 1 THEN 1 ELSE a, IF b > Len(s) THEN Len(s) ELSE b)

\* String.prototype.charAt (1-based index here)
charAt(s, i) == Slice(s, i, i)

CodeTable ==
  [c \in {charAt(AsciiLow, i) : i \in 1..Len(AsciiLow)}
          \cup {charAt(AsciiHigh, i) : i \in 1..Len(AsciiHigh)} |->
     IF \E i \in 1..Len(AsciiLow) : charAt(AsciiLow, i) = c
     THEN 31 + (CHOOSE i \in 1..Len(AsciiLow) : charAt(AsciiLow, i) = c)
     ELSE 96 + (CHOOSE i \in 1..Len(AsciiHigh) : charAt(AsciiHigh, i) = c)]

\* String.prototype.charCodeAt (1-based index here)
charCodeAt(s, i) == CodeTable[charAt(s, i)]

Digits == {"0", "1", "2", "3", "4", "5", "6", "7", "8", "9"}

\* the regular-expression class \d, applied to a whole string: /^\d*$/
AllDigits(s) == \A i \in 1..Len(s) : charAt(s, i) \in Digits

\* /^\d{n}$/
IsDigitsN(s, n) == Len(s) = n /\ AllDigits(s)

\* /^<prefix>\d{n}$/
IsPrefixDigitsN(s, prefix, n) ==
  /\ Len(s) = Len(prefix) + n
  /\ Slice(s, 1, Len(prefix)) = prefix
  /\ AllDigits(Slice(s, Len(prefix) + 1, Len(s)))

\* String.prototype.substring(start) with a 0-based start
substring(s, start) == Slice(s, start + 1, Len(s))

\* the regular-expression class \s restricted to the characters of the model
WhiteSpace == {" "}

\* String.prototype.trim: the span from the first to the last non-blank
trim(s) ==
  LET keep == {i \in 1..Len(s) : charAt(s, i) \notin WhiteSpace}
  IN IF keep = {} THEN ""
     ELSE Slice(s, CHOOSE i \in keep : \A k \in keep : i <= k,
                    CHOOSE i \in keep : \A k \in keep : i >= k)

\* s.replace(/[<set>]/g, ""): every character of the set removed
removeAll(s, set) ==
  LET go[i \in 0..Len(s)] ==
        IF i = 0 THEN ""
        ELSE go[i - 1] \o (IF charAt(s, i) \in set THEN "" ELSE charAt(s, i))
  IN go[Len(s)]

\* String.prototype.padStart(n, c) for a one-character filler
padStart(s, n, c) ==
  LET go[k \in 0..n] == IF k = 0 THEN s ELSE c \o go[k - 1]
  IN IF Len(s) >= n THEN s ELSE go[n - Len(s)]

DigitChar(d) == charAt("0123456789", d + 1)
DigitVal(c) == CodeTable[c] - 48

\* Number.prototype.toString() of a non-negative integer
NatToString[n \in Nat] ==
  IF n < 10 THEN DigitChar(n) ELSE NatToString[n \div 10] \o DigitChar(n % 10)

\* Number.prototype.toString(16).toUpperCase() of a non-negative integer
HexUpper[n \in Nat] ==
  IF n < 16 THEN charAt("0123456789ABCDEF", n + 1)
  ELSE HexUpper[n \div 16] \o charAt("0123456789ABCDEF", (n % 16) + 1)

\* ------------------------- 32-bit integer operators ---------------------

\* a ^ b for non-negative a, b
Xor[a \in Nat, b \in Nat] ==
  IF a = 0 THEN b
  ELSE IF b = 0 THEN a
  ELSE ((a + b) % 2) + 2 * Xor[a \div 2, b \div 2]

\* a & (1 << k) # 0
BitSet(a, k) == (a \div (2 ^ k)) % 2 = 1

\* ------------------------- tlv and crc16 --------------------------------

\* tlv without the padding of the length
tlv_unpadded(tag, value) == tag \o NatToString[Len(value)] \o value

\* tlv(tag, value): tag + 2-digit zero-padded length + value
tlv(tag, value) == tag \o padStart(NatToString[Len(value)], 2, "0") \o value

\* the inner loop of crc16: the register after shift/xor steps j..7
crcShift[crc \in Nat, j \in 0..8] ==
  IF j = 8 THEN crc
  ELSE crcShift[IF BitSet(crc, 15)
                THEN Xor[crc * 2, 4129] % 65536
                ELSE (crc * 2) % 65536,
                j + 1]

\* the char codes of a string, as data.charCodeAt(i) reads them
charCodes(data) == [i \in 1..Len(data) |-> charCodeAt(data, i)]

\* the outer loop of crc16 over the characters lo..hi of the data: each char
\* code is xored into the register shifted left by 8, and shifted out (the
\* for-loop over i, folded left to right; the fold is evaluated by halves to
\* bound the evaluation depth)
crcLoop[codes \in Seq(Nat), lo \in Nat, hi \in Nat, crc \in Nat] ==
  IF lo > hi THEN crc
  ELSE IF lo = hi
       THEN crcShift[Xor[crc, codes[lo] * 256], 0]
       ELSE crcLoop[codes, ((lo + hi) \div 2) + 1, hi,
                    crcLoop[codes, lo, (lo + hi) \div 2, crc]]

\* crc16 with the register starting at 0x0000 (the XMODEM variant)
crc16_initZero(data) ==
  padStart(HexUpper[Const(charCodes(data), LAMBDA d : crcLoop[d, 1, Len(d), 0])], 4, "0")

\* crc16(data): the register starts at 0xFFFF; the result is 4 uppercase hex
\* digits
crc16(data) ==
  padStart(HexUpper[Const(charCodes(data), LAMBDA d : crcLoop[d, 1, Len(d), 65535])], 4, "0")

\* ------------------------- JavaScript numbers ---------------------------
\* A Number is NaN, +-Infinity, a finite value of magnitude >= 10^21 ("big",
\* the value 1e21), or a finite value counted in thousandths (m / 1000).

NaN == [k |-> "nan", neg |-> FALSE, m |-> 0]
Fin(neg, m) == [k |-> "fin", neg |-> neg, m |-> m]
Big(neg) == [k |-> "big", neg |-> neg, m |-> 0]
\* a finite value of d integer digits, MinWide <= d <= 21, too large to count
\* in thousandths: only the number of its digits is kept
Wide(neg, d) == [k |-> "wide", neg |-> neg, m |-> d]
MinWide == 7
\* the digits such a value is printed with
WideDigits(d) == Slice("123456789012345678901", 1, d)
Inf(neg) == [k |-> "inf", neg |-> neg, m |-> 0]
\* the value undefined where a number is expected (amount?: number)
Undefined == [k |-> "undefined", neg |-> FALSE, m |-> 0]

IsZero(n) == n.k = "fin" /\ n.m = 0
\* n < 0 and n > 0 (false for NaN and undefined)
LtZero(n) == n.k \in {"fin", "wide", "big", "inf"} /\ n.neg /\ ~IsZero(n)
GtZero(n) == n.k \in {"fin", "wide", "big", "inf"} /\ ~n.neg /\ ~IsZero(n)
isNaN(n) == n.k \in {"nan", "undefined"}
\* ToBoolean of a number or undefined
TruthyNum(n) == n.k \in {"fin", "wide", "big", "inf"} /\ ~IsZero(n)

\* the decimal digits of a fraction f / 10^w, w digits wide
FracDigits(f, w) == padStart(NatToString[f], w, "0")

\* drop trailing zeros of a digit string
StripZeros(d) ==
  LET keep == {i \in 1..Len(d) : charAt(d, i) # "0"}
  IN IF keep = {} THEN "" ELSE Slice(d, 1, CHOOSE i \in keep : \A k \in keep : i >= k)

\* Number.prototype.toFixed(2): round to the nearest hundredth (the larger one
\* on a tie); values >= 10^21 and non-finite values fall back to ToString
toFixed2(n) ==
  CASE n.k = "fin" ->
         LET h == (n.m + 5) \div 10
         IN (IF n.neg /\ n.m > 0 THEN "-" ELSE "")
            \o NatToString[h \div 100] \o "." \o FracDigits(h % 100, 2)
    [] n.k = "wide" -> (IF n.neg THEN "-" ELSE "") \o WideDigits(n.m) \o ".00"
    [] n.k = "big" -> (IF n.neg THEN "-" ELSE "") \o "1e+21"
    [] n.k = "inf" -> (IF n.neg THEN "-" ELSE "") \o "Infinity"
    [] OTHER -> "NaN"

\* String(n) for a Number
NumberToString(n) ==
  CASE n.k = "fin" ->
         LET frac == StripZeros(FracDigits(n.m % 1000, 3))
         IN (IF n.neg /\ n.m > 0 THEN "-" ELSE "")
            \o NatToString[n.m \div 1000]
            \o (IF frac = "" THEN "" ELSE "." \o frac)
    [] n.k = "wide" -> (IF n.neg THEN "-" ELSE "") \o WideDigits(n.m)
    [] n.k = "big" -> (IF n.neg THEN "-" ELSE "") \o "1e+21"
    [] n.k = "inf" -> (IF n.neg THEN "-" ELSE "") \o "Infinity"
    [] n.k = "nan" -> "NaN"
    [] OTHER -> "undefined"

\* the number of consecutive decimal digits of s from position from on
DigitRun(s, from) ==
  LET ends == {e \in (from - 1)..Len(s) : \A i \in from..e : charAt(s, i) \in Digits}
  IN (CHOOSE e \in ends : \A k \in ends : e >= k) - from + 1

\* the value of a string of decimal digits ("" is 0)
DigitsToNat(d) ==
  LET go[i \in 0..Len(d)] == IF i = 0 THEN 0 ELSE go[i - 1] * 10 + DigitVal(charAt(d, i))
  IN go[Len(d)]

\* m * 10^e in thousandths: "big" from 10^21 (10^24 thousandths, 25 digits)
\* on, "wide" from MinWide integer digits on
Scale(neg, m, e) ==
  IF m = 0 THEN Fin(neg, 0)
  ELSE IF e >= 0
       THEN IF Len(NatToString[m]) + e >= 25 THEN Big(neg)
            ELSE IF Len(NatToString[m]) + e >= MinWide + 3
            THEN Wide(neg, Len(NatToString[m]) + e - 3)
            ELSE Fin(neg, m * (10 ^ e))
       ELSE Fin(neg, m \div (10 ^ (0 - e)))

\* s without its leading white space
TrimStart(s) ==
  LET blank == {i \in 1..Len(s) : charAt(s, i) \notin WhiteSpace}
  IN IF blank = {} THEN ""
     ELSE substring(s, (CHOOSE i \in blank : \A k \in blank : i <= k) - 1)

\* the sign of a decimal literal, and the literal without it
HasSign(t) == Len(t) > 0 /\ charAt(t, 1) \in {"+", "-"}
IsNegative(t) == HasSign(t) /\ charAt(t, 1) = "-"
Unsigned(t) == IF HasSign(t) THEN substring(t, 1) ELSE t

\* the number of digits of a digit string behind its leading zeros
Significant(d) == Len(d) - Cardinality({i \in 1..Len(d) : \A k \in 1..i : charAt(d, k) = "0"})

\* the mantissa at the front of u: ni integer digits (sig of them behind the
\* leading zeros), nf fraction digits, its length, and its value in
\* thousandths when it has fewer than MinWide integer digits (fraction digits
\* beyond the third are below the resolution of Fin)
Mantissa(u) ==
  LET ni == DigitRun(u, 1)
      hasDot == Len(u) > ni /\ charAt(u, ni + 1) = "."
      nf == IF hasDot THEN DigitRun(u, ni + 2) ELSE 0
      frac3 == Slice(Slice(u, ni + 2, ni + 1 + nf) \o "000", 1, 3)
      sig == Significant(Slice(u, 1, ni))
  IN [ni |-> ni, nf |-> nf, sig |-> sig,
      end |-> ni + (IF hasDot THEN 1 + nf ELSE 0),
      milli |-> IF sig >= MinWide THEN 0
                ELSE DigitsToNat(Slice(u, 1, ni)) * 1000 + DigitsToNat(frac3)]

\* the exponent part of u behind a mantissa that ends at mantEnd (0 if none)
Exponent(u, mantEnd) ==
  LET hasE == Len(u) > mantEnd /\ charAt(u, mantEnd + 1) \in {"e", "E"}
      eSigned == hasE /\ Len(u) > mantEnd + 1 /\ charAt(u, mantEnd + 2) \in {"+", "-"}
      eFrom == mantEnd + (IF eSigned THEN 3 ELSE 2)
      ne == IF hasE THEN DigitRun(u, eFrom) ELSE 0
  IN IF ne = 0 THEN 0
     ELSE (IF eSigned /\ charAt(u, mantEnd + 2) = "-" THEN -1 ELSE 1)
          * DigitsToNat(Slice(u, eFrom, eFrom + ne - 1))

\* the value of the mantissa mt of u with the exponent e and the sign neg
Valued(neg, u, mt, e) ==
  IF mt.sig >= MinWide
  THEN Const(mt.sig + e, LAMBDA d :
         IF d >= 22 THEN Big(neg)
         ELSE IF d >= MinWide THEN Wide(neg, d)
         ELSE Fin(neg, DigitsToNat(Slice(u, mt.ni - mt.sig + 1, mt.ni - mt.sig + d)) * 1000))
  ELSE Scale(neg, mt.milli, e)

\* the value of the unsigned literal u with the sign neg
Literal(neg, u) ==
  IF Slice(u, 1, 8) = "Infinity" THEN Inf(neg)
  ELSE Const(Mantissa(u), LAMBDA mt :
         IF mt.ni + mt.nf = 0 THEN NaN
         ELSE Valued(neg, u, mt, Exponent(u, mt.end)))

\* parseFloat(s): leading blanks skipped, then the longest prefix that is a
\* decimal literal: sign, digits, fraction, exponent; "Infinity"; else NaN.
parseFloat(s) ==
  Const(TrimStart(s), LAMBDA t :
    Const(Unsigned(t), LAMBDA u : Literal(IsNegative(t), u)))

\* ------------------------- JavaScript values of a content record --------
\* A field of the content record (Record<string, unknown>) is undefined
\* (missing), a string, a number, a boolean or null.

JSUndefined == [t |-> "undefined", s |-> "", n |-> NaN]
JSString(str) == [t |-> "string", s |-> str, n |-> NaN]
JSNumber(num) == [t |-> "number", s |-> "", n |-> num]
JSBoolean(b) == [t |-> "boolean", s |-> IF b THEN "true" ELSE "false", n |-> NaN]
JSNull == [t |-> "null", s |-> "", n |-> NaN]

\* ToBoolean(v)
Truthy(v) ==
  CASE v.t = "string" -> v.s # ""
    [] v.t = "number" -> TruthyNum(v.n)
    [] v.t = "boolean" -> v.s = "true"
    [] OTHER -> FALSE

\* String(v)
JSToString(v) ==
  CASE v.t = "string" -> v.s
    [] v.t = "number" -> NumberToString(v.n)
    [] v.t = "boolean" -> v.s
    [] v.t = "null" -> "null"
    [] OTHER -> "undefined"

\* String(v || "")
StringOrEmpty(v) == IF Truthy(v) THEN JSToString(v) ELSE ""

\* ------------------------- outcomes of a call ---------------------------

\* a call returns a string or throws an Error with a message
Return(str) == [ok |-> TRUE, value |-> str, error |-> ""]
Throw(msg) == [ok |-> FALSE, value |-> "", error |-> msg]

\* encodePromptPay either throws before it reaches generatePromptPayPayload or
\* calls it with an identifier and an amount
NoCall(msg) == [made |-> FALSE, error |-> msg, id |-> "", amount |-> Undefined]
Call(id, amount) == [made |-> TRUE, error |-> "", id |-> id, amount |-> amount]

\* ------------------------- PromptPay, src/src/util/qr-encoder.ts --------

AID == "A000000677010111"

\* const sanitized = id.replace(/[-\s]/g, "")
sanitize(id) == removeAll(id, {"-"} \cup WhiteSpace)

\* classify with the mobile rewrite keeping the leading 0 of the number
classify_keepZero(sanitized) ==
  IF IsPrefixDigitsN(sanitized, "0", 9)
  THEN [valid |-> TRUE, accountFieldTag |-> "01", formattedId |-> "0066" \o sanitized]
  ELSE IF IsPrefixDigitsN(sanitized, "66", 9) \/ IsPrefixDigitsN(sanitized, "+66", 9)
  THEN [valid |-> TRUE, accountFieldTag |-> "01",
        formattedId |-> "00" \o (IF charAt(sanitized, 1) = "+"
                                 THEN substring(sanitized, 1) ELSE sanitized)]
  ELSE IF IsDigitsN(sanitized, 13)
  THEN [valid |-> TRUE, accountFieldTag |-> "02", formattedId |-> sanitized]
  ELSE IF IsDigitsN(sanitized, 15)
  THEN [valid |-> TRUE, accountFieldTag |-> "03", formattedId |-> sanitized]
  ELSE [valid |-> FALSE, accountFieldTag |-> "", formattedId |-> ""]

\* classify with the 15-digit E-Wallet branch tagged as a National ID
classify_walletTag(sanitized) ==
  IF IsPrefixDigitsN(sanitized, "0", 9)
  THEN [valid |-> TRUE, accountFieldTag |-> "01",
        formattedId |-> "0066" \o padStart(substring(sanitized, 1), 9, "0")]
  ELSE IF IsPrefixDigitsN(sanitized, "66", 9) \/ IsPrefixDigitsN(sanitized, "+66", 9)
  THEN [valid |-> TRUE, accountFieldTag |-> "01",
        formattedId |-> "00" \o (IF charAt(sanitized, 1) = "+"
                                 THEN substring(sanitized, 1) ELSE sanitized)]
  ELSE IF IsDigitsN(sanitized, 13) \/ IsDigitsN(sanitized, 15)
  THEN [valid |-> TRUE, accountFieldTag |-> "02", formattedId |-> sanitized]
  ELSE [valid |-> FALSE, accountFieldTag |-> "", formattedId |-> ""]

\* the if / else-if chain that sets accountFieldTag and formattedId
classify(sanitized) ==
  IF IsPrefixDigitsN(sanitized, "0", 9)
  THEN [valid |-> TRUE, accountFieldTag |-> "01",
        formattedId |-> "0066" \o padStart(substring(sanitized, 1), 9, "0")]
  ELSE IF IsPrefixDigitsN(sanitized, "66", 9) \/ IsPrefixDigitsN(sanitized, "+66", 9)
  THEN [valid |-> TRUE, accountFieldTag |-> "01",
        formattedId |-> "00" \o (IF charAt(sanitized, 1) = "+"
                                 THEN substring(sanitized, 1) ELSE sanitized)]
  ELSE IF IsDigitsN(sanitized, 13)
  THEN [valid |-> TRUE, accountFieldTag |-> "02", formattedId |-> sanitized]
  ELSE IF IsDigitsN(sanitized, 15)
  THEN [valid |-> TRUE, accountFieldTag |-> "03", formattedId |-> sanitized]
  ELSE [valid |-> FALSE, accountFieldTag |-> "", formattedId |-> ""]

\* buildPayload with the country code written before the currency
buildPayload_countryFirst(accountFieldTag, formattedId, amount) ==
  LET merchantAccountInfo == tlv("00", AID) \o tlv(accountFieldTag, formattedId)
      pointOfInitiation == IF TruthyNum(amount) THEN "12" ELSE "11"
  IN tlv("00", "01")
     \o tlv("01", pointOfInitiation)
     \o tlv("29", merchantAccountInfo)
     \o tlv("58", "TH")
     \o tlv("53", "764")
     \o (IF TruthyNum(amount) THEN tlv("54", toFixed2(amount)) ELSE "")
     \o "6304"

\* the payload without the checksum, ending in the checksum header "6304"
buildPayload(accountFieldTag, formattedId, amount) ==
  LET merchantAccountInfo == tlv("00", AID) \o tlv(accountFieldTag, formattedId)
      pointOfInitiation == IF TruthyNum(amount) THEN "12" ELSE "11"
  IN tlv("00", "01")
     \o tlv("01", pointOfInitiation)
     \o tlv("29", merchantAccountInfo)
     \o tlv("53", "764")
     \o (IF TruthyNum(amount) THEN tlv("54", toFixed2(amount)) ELSE "")
     \o tlv("58", "TH")
     \o "6304"

\* payload += crc16(payload)
appendCrc(payload) == payload \o crc16(payload)

generatePromptPayPayload(id, amount) ==
  Const(sanitize(id), LAMBDA sanitized :
    Const(classify(sanitized), LAMBDA c :
      IF ~c.valid
      THEN Throw("Invalid PromptPay ID. Use mobile number (08x-xxx-xxxx), National ID (13 digits), or E-Wallet ID (15 digits).")
      ELSE Return(appendCrc(buildPayload(c.accountFieldTag, c.formattedId, amount)))))

\* promptPayCall without the check for a negative amount
promptPayCall_noNegativeCheck(content) ==
  LET rawId == trim(StringOrEmpty(content.promptpayId))
  IN IF rawId = "" THEN NoCall("PromptPay ID is required")
     ELSE Const(IF Truthy(content.amount)
                THEN parseFloat(JSToString(content.amount)) ELSE Fin(FALSE, 0),
                LAMBDA amount :
                  Call(rawId, IF GtZero(amount) THEN amount ELSE Undefined))

\* the checks of encodePromptPay: it throws, or it calls
\* generatePromptPayPayload(rawId, amount > 0 ? amount : undefined)
promptPayCall(content) ==
  LET rawId == trim(StringOrEmpty(content.promptpayId))
  IN IF rawId = "" THEN NoCall("PromptPay ID is required")
     ELSE Const(IF Truthy(content.amount)
                THEN parseFloat(JSToString(content.amount)) ELSE Fin(FALSE, 0),
                LAMBDA amount :
                  IF LtZero(amount) THEN NoCall("Amount cannot be negative") ELSE
                  Call(rawId, IF GtZero(amount) THEN amount ELSE Undefined))

encodePromptPay(content) ==
  Const(promptPayCall(content), LAMBDA c :
    IF c.made THEN generatePromptPayPayload(c.id, c.amount) ELSE Throw(c.error))

\* ------------------------- PromptPay, src/src/service/qr-generator.ts ----

\* const cleanId = id.replace(/[\s\-+]/g, "")
svc_cleanId(id) == removeAll(id, {"-", "+"} \cup WhiteSpace)

svc_classify(cleanId) ==
  IF IsDigitsN(cleanId, 13)
  THEN [valid |-> TRUE, accountFieldTag |-> "02", formattedId |-> cleanId]
  ELSE IF IsPrefixDigitsN(cleanId, "0", 9)
  THEN [valid |-> TRUE, accountFieldTag |-> "01",
        formattedId |-> "0066" \o substring(cleanId, 1)]
  ELSE IF IsPrefixDigitsN(cleanId, "66", 9)
  THEN [valid |-> TRUE, accountFieldTag |-> "01", formattedId |-> "00" \o cleanId]
  ELSE IF IsPrefixDigitsN(cleanId, "0066", 9)
  THEN [valid |-> TRUE, accountFieldTag |-> "01", formattedId |-> cleanId]
  ELSE IF IsDigitsN(cleanId, 10)
  THEN [valid |-> TRUE, accountFieldTag |-> "01",
        formattedId |-> "0066" \o substring(cleanId, 1)]
  ELSE IF IsDigitsN(cleanId, 15)
  THEN [valid |-> TRUE, accountFieldTag |-> "03", formattedId |-> cleanId]
  ELSE [valid |-> FALSE, accountFieldTag |-> "", formattedId |-> ""]

svc_buildPayload(accountFieldTag, formattedId, amount) ==
  LET aid == tlv("00", AID)
      accountId == tlv(accountFieldTag, formattedId)
      merchantAccountInfo == tlv("29", aid \o accountId)
      initMethod == IF amount # Undefined /\ GtZero(amount) THEN "12" ELSE "11"
  IN tlv("00", "01")
     \o tlv("01", initMethod)
     \o merchantAccountInfo
     \o tlv("53", "764")
     \o (IF amount # Undefined /\ GtZero(amount)
         THEN tlv("54", toFixed2(amount)) ELSE "")
     \o tlv("58", "TH")
     \o "6304"

svc_generatePromptPayPayload(id, amount) ==
  Const(svc_cleanId(id), LAMBDA cleanId :
    Const(svc_classify(cleanId), LAMBDA c :
      IF ~c.valid
      THEN Throw("Invalid PromptPay ID. Use a mobile number (08X-XXX-XXXX), National ID (13 digits), or Tax ID.")
      ELSE Return(appendCrc(svc_buildPayload(c.accountFieldTag, c.formattedId, amount)))))

\* the checks of encodePromptPay: it throws, or it calls
\* generatePromptPayPayload(rawId, amount)
svc_promptPayCall(content) ==
  LET rawId == trim(StringOrEmpty(content.promptpayId))
      amountStr == trim(StringOrEmpty(content.amount))
  IN IF rawId = "" THEN NoCall("PromptPay ID is required")
     ELSE Const(IF amountStr # "" THEN parseFloat(amountStr) ELSE Undefined,
                LAMBDA amount :
                  IF amount # Undefined /\ (isNaN(amount) \/ LtZero(amount))
                  THEN NoCall("Amount must be a positive number")
                  ELSE Call(rawId, amount))

svc_encodePromptPay(content) ==
  Const(svc_promptPayCall(content), LAMBDA c :
    IF c.made THEN svc_generatePromptPayPayload(c.id, c.amount) ELSE Throw(c.error))

\* ------------------------- the other encoders --------------------------
\* encodeURL .. encodeFacebook are the same text in both revisions
\* (qr-encoder.ts lines 38-141, qr-generator.ts lines 414-517).

\* content.<name>: undefined when the record has no such field
Field(content, name) == IF name \in DOMAIN content THEN content[name] ELSE JSUndefined

UpperLetters == "ABCDEFGHIJKLMNOPQRSTUVWXYZ"
LowerLetters == "abcdefghijklmnopqrstuvwxyz"

\* String.prototype.toLowerCase on one character, and on a string
lowerChar(c) ==
  LET at == {i \in 1..Len(UpperLetters) : charAt(UpperLetters, i) = c}
  IN IF at = {} THEN c ELSE charAt(LowerLetters, CHOOSE i \in at : TRUE)

toLowerCase(s) ==
  LET go[i \in 0..Len(s)] == IF i = 0 THEN "" ELSE go[i - 1] \o lowerChar(charAt(s, i))
  IN go[Len(s)]

\* /^https?:\/\//i.test(s)
hasHttpScheme(s) ==
  \/ toLowerCase(Slice(s, 1, 7)) = "http://"
  \/ toLowerCase(Slice(s, 1, 8)) = "https://"

\* the characters encodeURIComponent leaves as they are
Unreserved ==
  {charAt(UpperLetters, i) : i \in 1..Len(UpperLetters)}
    \cup {charAt(LowerLetters, i) : i \in 1..Len(LowerLetters)}
    \cup Digits \cup {"-", "_", ".", "!", "~", "*", "'", "(", ")"}

\* encodeURIComponent(s) for the one-byte characters of the model: every
\* other character becomes % and the two hex digits of its code
encodeURIComponent(s) ==
  LET go[i \in 0..Len(s)] ==
        IF i = 0 THEN ""
        ELSE go[i - 1] \o (IF charAt(s, i) \in Unreserved THEN charAt(s, i)
                           ELSE "%" \o padStart(HexUpper[charCodeAt(s, i)], 2, "0"))
  IN go[Len(s)]

\* the character class of escapeWiFiField: [\\;,":]
WiFiReserved == {"\\", ";", ",", "\"", ":"}

\* value.replace(/([\\;,":])/, "\\$1"): the pattern has no g flag, so the
\* first match only is replaced
escapeWiFiField(value) ==
  LET at == {i \in 1..Len(value) : charAt(value, i) \in WiFiReserved}
  IN IF at = {} THEN value
     ELSE LET first == CHOOSE i \in at : \A k \in at : i <= k
          IN Slice(value, 1, first - 1) \o "\\" \o Slice(value, first, Len(value))

\* encodeURL with the scheme test made case-sensitive
encodeURL_caseSensitive(content) ==
  LET url == trim(StringOrEmpty(Field(content, "url")))
  IN IF url = "" THEN Throw("URL is required")
     ELSE IF Slice(url, 1, 7) # "http://" /\ Slice(url, 1, 8) # "https://"
          THEN Return("https://" \o url)
     ELSE Return(url)

encodeURL(content) ==
  LET url == trim(StringOrEmpty(Field(content, "url")))
  IN IF url = "" THEN Throw("URL is required")
     ELSE IF ~hasHttpScheme(url) THEN Return("https://" \o url)
     ELSE Return(url)

\* encodeText without the check for an empty text
encodeText_noCheck(content) ==
  LET text == trim(StringOrEmpty(Field(content, "text")))
  IN Return(text)

encodeText(content) ==
  LET text == trim(StringOrEmpty(Field(content, "text")))
  IN IF text = "" THEN Throw("Text content is required") ELSE Return(text)

\* content.hidden === "true" || content.hidden === true
isHidden(content) ==
  Field(content, "hidden") \in {JSString("true"), JSBoolean(TRUE)}

encodeWiFi(content) ==
  LET ssid == trim(StringOrEmpty(Field(content, "ssid")))
      password == StringOrEmpty(Field(content, "password"))
      encryption == IF Truthy(Field(content, "encryption"))
                    THEN JSToString(Field(content, "encryption")) ELSE "WPA"
  IN IF ssid = "" THEN Throw("WiFi SSID is required")
     ELSE Return("WIFI:T:" \o encryption
                 \o ";S:" \o escapeWiFiField(ssid)
                 \o ";P:" \o escapeWiFiField(password)
                 \o ";H:" \o (IF isHidden(content) THEN "true" ELSE "false")
                 \o ";;")

\* lines.join(sep)
join(lines, sep) ==
  LET go[i \in 0..Len(lines)] ==
        IF i = 0 THEN ""
        ELSE IF i = 1 THEN lines[1]
        ELSE go[i - 1] \o sep \o lines[i]
  IN go[Len(lines)]

\* if (content.<name>) lines.push(label + String(content.<name>).trim())
optionalLine(content, name, label) ==
  IF Truthy(Field(content, name))
  THEN <<label \o trim(JSToString(Field(content, name)))>>
  ELSE <<>>

encodeVCard(content) ==
  LET firstName == trim(StringOrEmpty(Field(content, "firstName")))
      lastName == trim(StringOrEmpty(Field(content, "lastName")))
  IN IF firstName = "" /\ lastName = ""
     THEN Throw("At least a first or last name is required")
     ELSE Return(join(<<"BEGIN:VCARD",
                        "VERSION:3.0",
                        "N:" \o lastName \o ";" \o firstName \o ";;;",
                        trim("FN:" \o firstName \o " " \o lastName)>>
                      \o optionalLine(content, "phone", "TEL:")
                      \o optionalLine(content, "email", "EMAIL:")
                      \o optionalLine(content, "org", "ORG:")
                      \o optionalLine(content, "title", "TITLE:")
                      \o optionalLine(content, "url", "URL:")
                      \o <<"END:VCARD">>,
                      "\n"))

\* if (content.<name>) params.push(name + "=" + encodeURIComponent(String(..)))
queryParam(content, name) ==
  IF Truthy(Field(content, name))
  THEN <<name \o "=" \o encodeURIComponent(JSToString(Field(content, name)))>>
  ELSE <<>>

encodeEmail(content) ==
  LET to == trim(StringOrEmpty(Field(content, "to")))
      params == queryParam(content, "subject") \o queryParam(content, "body")
  IN IF to = "" THEN Throw("Email address is required")
     ELSE Return("mailto:" \o to
                 \o (IF Len(params) > 0 THEN "?" \o join(params, "&") ELSE ""))

encodePhone(content) ==
  LET phone == trim(StringOrEmpty(Field(content, "phone")))
  IN IF phone = "" THEN Throw("Phone number is required") ELSE Return("tel:" \o phone)

encodeSMS(content) ==
  LET phone == trim(StringOrEmpty(Field(content, "phone")))
      message == trim(StringOrEmpty(Field(content, "message")))
  IN IF phone = "" THEN Throw("Phone number is required")
     ELSE Return("sms:" \o phone
                 \o (IF message # "" THEN "?body=" \o encodeURIComponent(message) ELSE ""))

encodeLine(content) ==
  LET lineId == trim(StringOrEmpty(Field(content, "lineId")))
  IN IF lineId = "" THEN Throw("LINE ID is required")
     ELSE IF hasHttpScheme(lineId) THEN Return(lineId)
     ELSE Return("https://line.me/R/ti/p/"
                 \o encodeURIComponent(IF charAt(lineId, 1) = "@" THEN lineId
                                       ELSE "@" \o lineId))

encodeFacebook(content) ==
  LET input == trim(StringOrEmpty(Field(content, "facebookUrl")))
  IN IF input = "" THEN Throw("Facebook URL or username is required")
     ELSE IF hasHttpScheme(input) THEN Return(input)
     ELSE Return("https://www.facebook.com/" \o input)

\* the content record as encodePromptPay reads it
promptPayContent(content) ==
  [promptpayId |-> Field(content, "promptpayId"), amount |-> Field(content, "amount")]

\* the switch of encodeQRContent, src/src/util/qr-encoder.ts
encodeQRContent(type, content) ==
  CASE type = "url" -> encodeURL(content)
    [] type = "text" -> encodeText(content)
    [] type = "wifi" -> encodeWiFi(content)
    [] type = "vcard" -> encodeVCard(content)
    [] type = "email" -> encodeEmail(content)
    [] type = "phone" -> encodePhone(content)
    [] type = "sms" -> encodeSMS(content)
    [] type = "line" -> encodeLine(content)
    [] type = "facebook" -> encodeFacebook(content)
    [] type = "promptpay" -> encodePromptPay(promptPayContent(content))
    [] OTHER -> Throw("Unsupported QR type: " \o type)

\* the switch of encodeQRContent, src/src/service/qr-generator.ts
svc_encodeQRContent(type, content) ==
  CASE type = "url" -> encodeURL(content)
    [] type = "text" -> encodeText(content)
    [] type = "wifi" -> encodeWiFi(content)
    [] type = "vcard" -> encodeVCard(content)
    [] type = "email" -> encodeEmail(content)
    [] type = "phone" -> encodePhone(content)
    [] type = "sms" -> encodeSMS(content)
    [] type = "line" -> encodeLine(content)
    [] type = "facebook" -> encodeFacebook(content)
    [] type = "promptpay" -> svc_encodePromptPay(promptPayContent(content))
    [] OTHER -> Throw("Unsupported QR type: " \o type)

\* ------------------------- parseQRStyle, src/src/type/index.ts -----------

\* the end of the exponent part of u behind a mantissa that ends at mantEnd
\* (mantEnd itself when there is none)
ExponentEnd(u, mantEnd) ==
  LET hasE == Len(u) > mantEnd /\ charAt(u, mantEnd + 1) \in {"e", "E"}
      eSigned == hasE /\ Len(u) > mantEnd + 1 /\ charAt(u, mantEnd + 2) \in {"+", "-"}
      eFrom == mantEnd + (IF eSigned THEN 3 ELSE 2)
      ne == IF hasE THEN DigitRun(u, eFrom) ELSE 0
  IN IF ne = 0 THEN mantEnd ELSE eFrom + ne - 1

\* Number(s) for a string: white space trimmed, "" is 0, then the whole of
\* the rest must be a decimal literal or a signed Infinity, else NaN (hex,
\* octal and binary literals are not among the inputs)
StringToNumber(s) ==
  Const(trim(s), LAMBDA t :
    IF t = "" THEN Fin(FALSE, 0)
    ELSE Const(Unsigned(t), LAMBDA u :
           IF u = "Infinity" THEN Inf(IsNegative(t))
           ELSE Const(Mantissa(u), LAMBDA mt :
                  IF mt.ni + mt.nf = 0 \/ ExponentEnd(u, mt.end) # Len(u) THEN NaN
                  ELSE Valued(IsNegative(t), u, mt, Exponent(u, mt.end)))))

\* Number(v)
ToNumber(v) ==
  CASE v.t = "number" -> v.n
    [] v.t = "string" -> StringToNumber(v.s)
    [] v.t = "boolean" -> Fin(FALSE, IF v.s = "true" THEN 1000 ELSE 0)
    [] v.t = "null" -> Fin(FALSE, 0)
    [] OTHER -> NaN

VALID_DOT_STYLES == {"square", "rounded", "dots"}
VALID_EC_LEVELS == {"L", "M", "Q", "H"}
VALID_BORDER_STYLES == {"none", "round-sm", "round-lg", "glow", "corners", "gradient"}

\* VALID.includes(v) ? v : fallback
oneOf(v, VALID, fallback) == IF v.t = "string" /\ v.s \in VALID THEN v.s ELSE fallback

\* String(v || fallback)
stringOr(v, fallback) == IF Truthy(v) THEN JSToString(v) ELSE fallback

\* Number(v) || fallback
numberOr(v, fallback) ==
  Const(ToNumber(v), LAMBDA n : IF TruthyNum(n) THEN n ELSE Fin(FALSE, fallback))

\* v ? String(v) : undefined
optionalString(v) == IF Truthy(v) THEN JSString(JSToString(v)) ELSE JSUndefined

\* parseQRStyle with the dot style taken from the input as it is
parseQRStyle_anyDotStyle(raw) ==
  [fgColor |-> stringOr(Field(raw, "fgColor"), "#000000"),
   bgColor |-> stringOr(Field(raw, "bgColor"), "#ffffff"),
   dotStyle |-> stringOr(Field(raw, "dotStyle"), "square"),
   ecLevel |-> oneOf(Field(raw, "ecLevel"), VALID_EC_LEVELS, "M"),
   width |-> numberOr(Field(raw, "width"), 512000),
   margin |-> numberOr(Field(raw, "margin"), 2000),
   labelText |-> IF Truthy(Field(raw, "labelText"))
                 THEN JSString(trim(JSToString(Field(raw, "labelText")))) ELSE JSUndefined,
   labelSize |-> numberOr(Field(raw, "labelSize"), 7000),
   labelColor |-> optionalString(Field(raw, "labelColor")),
   labelPosition |-> IF Field(raw, "labelPosition") = JSString("top") THEN "top" ELSE "bottom",
   borderStyle |-> oneOf(Field(raw, "borderStyle"), VALID_BORDER_STYLES, "none"),
   borderColor |-> optionalString(Field(raw, "borderColor"))]

\* parseQRStyle(raw); the numbers are in thousandths
parseQRStyle(raw) ==
  [fgColor |-> stringOr(Field(raw, "fgColor"), "#000000"),
   bgColor |-> stringOr(Field(raw, "bgColor"), "#ffffff"),
   dotStyle |-> oneOf(Field(raw, "dotStyle"), VALID_DOT_STYLES, "square"),
   ecLevel |-> oneOf(Field(raw, "ecLevel"), VALID_EC_LEVELS, "M"),
   width |-> numberOr(Field(raw, "width"), 512000),
   margin |-> numberOr(Field(raw, "margin"), 2000),
   labelText |-> IF Truthy(Field(raw, "labelText"))
                 THEN JSString(trim(JSToString(Field(raw, "labelText")))) ELSE JSUndefined,
   labelSize |-> numberOr(Field(raw, "labelSize"), 7000),
   labelColor |-> optionalString(Field(raw, "labelColor")),
   labelPosition |-> IF Field(raw, "labelPosition") = JSString("top") THEN "top" ELSE "bottom",
   borderStyle |-> oneOf(Field(raw, "borderStyle"), VALID_BORDER_STYLES, "none"),
   borderColor |-> optionalString(Field(raw, "borderColor"))]

\* ------------------------- the compositor -------------------------------
\* src/unnamed/part_005 (with the renderer for dots and rounded modules) and
\* its revision in src/src/service/qr-generator.ts (prefixed svc_ here).
\* A vector string is held as a record: the text of its viewBox attribute,
\* its width and height attributes (0 when absent) and its elements in
\* document order. Lengths are exact decimals counted in thousandths.

\* arithmetic on numbers: NaN unless both operands are finite
Value(n) == IF n.neg THEN 0 - n.m ELSE n.m
OfValue(v) == IF v < 0 THEN Fin(TRUE, 0 - v) ELSE Fin(FALSE, v)
Finite(a, b) == a.k = "fin" /\ b.k = "fin"
Plus(a, b) == IF Finite(a, b) THEN OfValue(Value(a) + Value(b)) ELSE NaN
Minus(a, b) == IF Finite(a, b) THEN OfValue(Value(a) - Value(b)) ELSE NaN
Times(a, b) == IF Finite(a, b) THEN OfValue((Value(a) * Value(b)) \div 1000) ELSE NaN
\* a / d for a small whole divisor d (sizePercent / 100, fontSize / 3)
Over(a, d) == IF a.k = "fin" THEN OfValue(Value(a) \div d) ELSE NaN
\* Math.round(a): the nearest integer, the larger one on a tie
MathRound(a) ==
  IF a.k = "fin"
  THEN OfValue((((Value(a) + 500) + 1000000) \div 1000) * 1000 - 1000000)
  ELSE a
\* Math.round(w * (h / d)), computed on the exact quotient
RoundedScale(w, h, d) ==
  IF Finite(w, h) /\ d.k = "fin" /\ ~IsZero(d)
  THEN LET p == (Value(w) \div 1000) * Value(h)
       IN MathRound(OfValue((p \div Value(d)) * 1000
                            + ((p % Value(d)) * 1000) \div Value(d)))
  ELSE NaN
Whole(n) == Fin(FALSE, n * 1000)
Milli(n) == Fin(FALSE, n)

\* the characters that /[\d\s,\.-]+/ accepts
ViewBoxChars == Digits \cup WhiteSpace \cup {",", ".", "-"}

\* svgString.match(/viewBox=["']?([\d\s,\.-]+)["']?/i): the longest run of
\* accepted characters at the start of the attribute text ("" is no match)
matchViewBox(text) ==
  LET bad == {i \in 1..Len(text) : charAt(text, i) \notin ViewBoxChars}
  IN IF bad = {} THEN text
     ELSE Slice(text, 1, (CHOOSE i \in bad : \A k \in bad : i <= k) - 1)

\* str.trim().split(/[\s,]+/): the runs of characters between separators
splitParts(str) ==
  LET t == trim(str)
      sep(i) == charAt(t, i) \in WhiteSpace \cup {","}
      starts == {i \in 1..Len(t) : ~sep(i) /\ (i = 1 \/ sep(i - 1))}
      stop(i) == CHOOSE j \in i..Len(t) :
                   /\ \A k \in i..j : ~sep(k)
                   /\ (j = Len(t) \/ sep(j + 1))
      n == Cardinality(starts)
      nth(k) == CHOOSE x \in starts : Cardinality({y \in starts : y <= x}) = k
  IN [k \in 1..n |-> Slice(t, nth(k), stop(nth(k)))]

\* parseFloat(parts[i]); parts[i] is undefined beyond the last part
partNumber(parts, i) == IF i <= Len(parts) THEN parseFloat(parts[i]) ELSE NaN

\* the four numbers of a matched viewBox text
viewBoxOf(match) ==
  Const(splitParts(match), LAMBDA parts :
    [x |-> partNumber(parts, 1), y |-> partNumber(parts, 2),
     w |-> partNumber(parts, 3), h |-> partNumber(parts, 4)])

\* the template literal ${a} ${b} ${c} ${d}
viewBoxText(a, b, c, d) ==
  NumberToString(a) \o " " \o NumberToString(b) \o " "
    \o NumberToString(c) \o " " \o NumberToString(d)

\* an absent width or height attribute
NoAttr == Undefined

\* the finder test of generateStyledSVGString with the bottom-left block
\* left out
isFinderPattern_twoBlocks(r, c, size) ==
  (r < 7 /\ c < 7) \/ (r < 7 /\ c >= size - 7)

\* const isFinderPattern = ... of generateStyledSVGString
isFinderPattern(r, c, size) ==
  (r < 7 /\ c < 7) \/ (r < 7 /\ c >= size - 7) \/ (r >= size - 7 /\ c < 7)

\* the primitive pushed for the dark module (r, c): a rect has its corner at
\* (x, y) and the corner radius r, a circle its centre at (x, y) and the
\* radius r
modulePrimitive(r, c, size, margin, dotStyle) ==
  LET x == c * 1000 + Value(margin)
      y == r * 1000 + Value(margin)
  IN IF isFinderPattern(r, c, size)
     THEN [tag |-> "rect", x |-> x, y |-> y, width |-> 1000, height |-> 1000, r |-> 0]
     ELSE IF dotStyle = "dots"
          THEN [tag |-> "circle", x |-> x + 500, y |-> y + 500,
                width |-> 0, height |-> 0, r |-> 450]
     ELSE IF dotStyle = "rounded"
          THEN [tag |-> "rect", x |-> x, y |-> y, width |-> 1000, height |-> 1000,
                r |-> 350]
     ELSE [tag |-> "rect", x |-> x, y |-> y, width |-> 1000, height |-> 1000, r |-> 0]

\* const totalSize = size + margin * 2
totalSize(size, margin) == Plus(Whole(size), Times(margin, Whole(2)))

\* modules.get(r, c): the flat data of the matrix read at r * size + c
get(size, data, r, c) == data[r * size + c]

\* the dark modules of a matrix in the order of the two for-loops
darkInOrder(size, data) ==
  SelectSeq([i \in 1..(size * size) |-> i - 1],
            LAMBDA i : get(size, data, i \div size, i % size))

\* generateStyledSVGString: one primitive for each dark module, in a group
\* filled with fgColor, under the viewBox 0 0 totalSize totalSize
generateStyledSVGString(size, data, style) ==
  Const(darkInOrder(size, data), LAMBDA cells :
    [viewBox |-> viewBoxText(Whole(0), Whole(0), totalSize(size, style.margin),
                             totalSize(size, style.margin)),
     width |-> NoAttr, height |-> NoAttr,
     elements |-> <<[tag |-> "g",
                     children |-> [k \in 1..Len(cells) |->
                                     modulePrimitive(cells[k] \div size, cells[k] % size, size,
                                                     style.margin, style.dotStyle)]]>>])

\* QRCode.toString(data, {...options, type: "svg"}) of the qrcode library: the
\* viewBox 0 0 totalSize totalSize, width and height attributes of
\* options.width, a background path and one path that draws the dark modules
\* as squares
libraryToString(size, data, style) ==
  [viewBox |-> viewBoxText(Whole(0), Whole(0), totalSize(size, style.margin),
                           totalSize(size, style.margin)),
   width |-> style.width, height |-> style.width,
   elements |-> <<[tag |-> "path", fill |-> "light"],
                  [tag |-> "path", stroke |-> "dark", squares |-> data]>>]

\* escapeXml
escapeXml(unsafe) ==
  LET one(c) == CASE c = "<" -> "&lt;"
                  [] c = ">" -> "&gt;"
                  [] c = "&" -> "&amp;"
                  [] c = "'" -> "&apos;"
                  [] c = "\"" -> "&quot;"
                  [] OTHER -> c
      go[i \in 0..Len(unsafe)] ==
        IF i = 0 THEN "" ELSE go[i - 1] \o one(charAt(unsafe, i))
  IN go[Len(unsafe)]

\* Math.round where the service revision has it, the number as it is where
\* part_005 has none
Rounded(service, n) == IF service THEN MathRound(n) ELSE n

\* the label stage of either revision
labelStage(svg, text, style, transparentBg, service) ==
  Const(matchViewBox(svg.viewBox), LAMBDA match :
    IF match = "" THEN svg
    ELSE Const(viewBoxOf(match), LAMBDA vb :
      LET minX == vb.x
          minY == vb.y
          width == vb.w
          height == vb.h
          sizePercent == IF TruthyNum(style.labelSize) THEN style.labelSize ELSE Whole(7)
          fontSize == Rounded(service, Times(width, Over(sizePercent, 100)))
          fontColor == IF Truthy(style.labelColor) THEN style.labelColor.s ELSE style.fgColor
          gap == Rounded(service, Times(fontSize, Milli(800)))
          extraHeight == Plus(Plus(gap, fontSize), gap)
          top == style.labelPosition = "top"
          newViewBox == IF top
                        THEN viewBoxText(minX, Minus(minY, extraHeight), width,
                                         Plus(height, extraHeight))
                        ELSE viewBoxText(minX, minY, width, Plus(height, extraHeight))
          textY == IF top
                   THEN Minus(Minus(minY, gap), Over(fontSize, 3))
                   ELSE Plus(Plus(height, gap), Over(fontSize, 2))
          labelBgRect == IF transparentBg THEN <<>>
                         ELSE <<[tag |-> "rect", x |-> minX,
                                 y |-> IF top THEN Minus(minY, extraHeight) ELSE height,
                                 width |-> width, height |-> extraHeight,
                                 fill |-> style.bgColor]>>
          textElement == [tag |-> "text",
                          x |-> IF service THEN Over(width, 2)
                                ELSE Plus(minX, Over(width, 2)),
                          y |-> textY,
                          fontSize |-> fontSize, fill |-> fontColor,
                          text |-> escapeXml(text)]
      IN [svg EXCEPT !.viewBox = newViewBox,
                     !.elements = @ \o labelBgRect \o <<textElement>>]))

addLabelToSVG(svgString, text, style, transparentBg) ==
  labelStage(svgString, text, style, transparentBg, FALSE)
svc_addLabelToSVG(svgString, text, style, transparentBg) ==
  labelStage(svgString, text, style, transparentBg, TRUE)

\* assembleSVG: a new root with the viewBox alone, then the defs, the border
\* elements and the content
assembleSVG(viewBox, defs, borderElements, content) ==
  [viewBox |-> viewBox, width |-> NoAttr, height |-> NoAttr,
   elements |-> defs \o borderElements \o <<content>>]

\* the elements of one border style
borderElementsOf(border, totalW, totalH, strokeW, borderColor, service) ==
  LET inset == Over(strokeW, 2)
      frame(rx, stroke, w, extra) ==
        [tag |-> "rect", x |-> inset, y |-> inset,
         width |-> Minus(totalW, strokeW), height |-> Minus(totalH, strokeW),
         rx |-> rx, stroke |-> stroke, strokeWidth |-> w, filter |-> extra]
      corner(name) == [tag |-> "path", corner |-> name,
                       length |-> Rounded(service, Times(totalW, Milli(150))),
                       inset |-> inset, stroke |-> borderColor, strokeWidth |-> strokeW]
      half == Times(strokeW, Milli(500))
  IN CASE border = "round-sm" ->
            <<frame(Rounded(service, Times(totalW, Milli(50))), borderColor, strokeW, "")>>
       [] border = "round-lg" ->
            <<frame(Rounded(service, Times(totalW, Milli(120))), borderColor, strokeW, "")>>
       [] border = "glow" ->
            <<frame(Rounded(service, Times(totalW, Milli(80))), borderColor, strokeW, "qr-glow"),
              frame(Rounded(service, Times(totalW, Milli(80))), borderColor,
                    IF Value(half) > 1000 THEN half ELSE Whole(1), "")>>
       [] border = "corners" ->
            <<corner("tl"), corner("tr"), corner("bl"), corner("br")>>
       [] border = "gradient" ->
            <<frame(Rounded(service, Times(totalW, Milli(60))), "url(#qr-border-grad)",
                    Times(strokeW, Milli(1500)), "")>>
       [] OTHER -> <<>>

\* the defs of one border style
borderDefsOf(border, strokeW) ==
  CASE border = "glow" ->
         <<[tag |-> "filter", id |-> "qr-glow", stdDeviation |-> Times(strokeW, Whole(2))]>>
    [] border = "gradient" -> <<[tag |-> "linearGradient", id |-> "qr-border-grad"]>>
    [] OTHER -> <<>>

BorderCases == {"round-sm", "round-lg", "glow", "corners", "gradient"}

\* the border stage of either revision; the switch of the service revision
\* returns the string as it is on a style it has no case for
borderStage(svg, style, transparentBg, service) ==
  IF style.borderStyle = "none" THEN svg
  ELSE Const(matchViewBox(svg.viewBox), LAMBDA match :
    IF match = "" THEN svg
    ELSE Const(viewBoxOf(match), LAMBDA vb :
      LET vbX == vb.x
          vbY == vb.y
          vbW == vb.w
          vbH == vb.h
          borderColor == IF Truthy(style.borderColor) THEN style.borderColor.s
                         ELSE style.fgColor
          strokeW == Rounded(service, Times(vbW, Milli(20)))
          pad == Rounded(service, Times(vbW, Milli(60)))
          totalW == Plus(vbW, Times(pad, Whole(2)))
          totalH == Plus(vbH, Times(pad, Whole(2)))
          newViewBox == viewBoxText(Whole(0), Whole(0), totalW, totalH)
      IN IF service /\ style.borderStyle \notin BorderCases THEN svg
         ELSE assembleSVG(newViewBox, borderDefsOf(style.borderStyle, strokeW),
                          borderElementsOf(style.borderStyle, totalW, totalH, strokeW,
                                           borderColor, service),
                          [tag |-> "g", dx |-> Minus(pad, vbX), dy |-> Minus(pad, vbY),
                           children |-> svg.elements])))

addBorderToSVG(svgString, style, transparentBg) ==
  borderStage(svgString, style, transparentBg, FALSE)
svc_addBorderToSVG(svgString, style, transparentBg) ==
  borderStage(svgString, style, transparentBg, TRUE)

\* setSvgDimensions: width and height replaced on the root, and a background
\* rect over the whole viewBox put first unless the background is transparent
setSvgDimensions(svgString, targetWidth, bgColor, transparentBg) ==
  Const(matchViewBox(svgString.viewBox), LAMBDA match :
    IF match = "" THEN svgString
    ELSE Const(viewBoxOf(match), LAMBDA vb :
      LET vbX == IF TruthyNum(vb.x) THEN vb.x ELSE Whole(0)
          vbY == IF TruthyNum(vb.y) THEN vb.y ELSE Whole(0)
          vbW == vb.w
          vbH == vb.h
          targetHeight == RoundedScale(targetWidth, vbH, vbW)
          bgRect == IF transparentBg THEN <<>>
                    ELSE <<[tag |-> "rect", x |-> vbX, y |-> vbY, width |-> vbW,
                            height |-> vbH, fill |-> bgColor]>>
      IN [svgString EXCEPT !.width = targetWidth, !.height = targetHeight,
                           !.elements = bgRect \o @]))

\* one entry of the record of a render: the stage and the string it left
Stage(name, svg) == [stage |-> name, svg |-> svg]

\* the string the last stage left
Current(done) == done[Len(done)].svg

\* the record with one more stage
After(done, name, svg) == Append(done, Stage(name, svg))

\* generateSVG with the border put on before the label
generateSVG_borderFirst(matrix, style, transparent) ==
  Const(<<Stage("base", IF style.dotStyle \in {"", "square"}
                        THEN libraryToString(matrix.size, matrix.data, style)
                        ELSE generateStyledSVGString(matrix.size, matrix.data, style))>>,
        LAMBDA s1 :
  Const(IF style.borderStyle \notin {"", "none"}
        THEN After(s1, "border", addBorderToSVG(Current(s1), style, transparent))
        ELSE s1, LAMBDA s2 :
  Const(IF Truthy(style.labelText)
        THEN After(s2, "label",
                   addLabelToSVG(Current(s2), style.labelText.s, style, transparent))
        ELSE s2, LAMBDA s3 :
  After(s3, "dimensions",
        setSvgDimensions(Current(s3), style.width, style.bgColor, transparent)))))

\* generateSVG of src/unnamed/part_005: the strings after the base render,
\* the label, the border and the final dimensions
generateSVG(matrix, style, transparent) ==
  Const(<<Stage("base", IF style.dotStyle \in {"", "square"}
                        THEN libraryToString(matrix.size, matrix.data, style)
                        ELSE generateStyledSVGString(matrix.size, matrix.data, style))>>,
        LAMBDA s1 :
  Const(IF Truthy(style.labelText)
        THEN After(s1, "label",
                   addLabelToSVG(Current(s1), style.labelText.s, style, transparent))
        ELSE s1, LAMBDA s2 :
  Const(IF style.borderStyle \notin {"", "none"}
        THEN After(s2, "border", addBorderToSVG(Current(s2), style, transparent))
        ELSE s2, LAMBDA s3 :
  After(s3, "dimensions",
        setSvgDimensions(Current(s3), style.width, style.bgColor, transparent)))))

\* generateSVG of src/src/service/qr-generator.ts
svc_generateSVG(matrix, style, transparent) ==
  Const(<<Stage("base", libraryToString(matrix.size, matrix.data, style))>>,
        LAMBDA s1 :
  Const(IF Truthy(style.labelText)
        THEN After(s1, "label",
                   svc_addLabelToSVG(Current(s1), style.labelText.s, style, transparent))
        ELSE s1, LAMBDA s2 :
  Const(IF style.borderStyle \notin {"", "none"}
        THEN After(s2, "border", svc_addBorderToSVG(Current(s2), style, transparent))
        ELSE s2, LAMBDA s3 :
  After(s3, "dimensions",
        setSvgDimensions(Current(s3), style.width, style.bgColor, transparent)))))

\* what generatePNG did: the vector path (the strings of generateSVG, then
\* sharp's resize and flatten) or QRCode.toBuffer of the library
VectorPath(done, transparent, style) ==
  [via |-> "vector", transparent |-> transparent, flatten |-> style.bgColor,
   resize |-> style.width, stages |-> done]
NativePath == [via |-> "native", transparent |-> FALSE, flatten |-> "",
               resize |-> Undefined, stages |-> <<>>]

\* generatePNG of src/unnamed/part_005
generatePNG(matrix, style) ==
  LET hasOverlays == \/ Truthy(style.labelText)
                     \/ style.borderStyle \notin {"", "none"}
                     \/ style.dotStyle \notin {"", "square"}
  IN IF hasOverlays
     THEN VectorPath(generateSVG(matrix, style, TRUE), TRUE, style)
     ELSE NativePath

\* generatePNG of src/src/service/qr-generator.ts
svc_generatePNG(matrix, style) ==
  LET hasOverlays == \/ Truthy(style.labelText)
                     \/ style.borderStyle \notin {"", "none"}
  IN IF hasOverlays
     THEN VectorPath(svc_generateSVG(matrix, style, FALSE), FALSE, style)
     ELSE NativePath

\* ------------------------- inputs ---------------------------------------

MinIdLen == 9
MaxIdLen == 16
MaxInsertAt == 2
MaxBaht == 2

Filler == "8123456789012345"
Prefixes == {"", "0", "66", "0066", "00"}

\* digit strings of every length MinIdLen..MaxIdLen behind every prefix
BaseIds ==
  {""} \cup {p \o Slice(Filler, 1, n - Len(p)) : p \in Prefixes, n \in MinIdLen..MaxIdLen}

\* s with the character c put in after its first p characters
Insert(s, p, c) == Slice(s, 1, p) \o c \o Slice(s, p + 1, Len(s))

\* a separator (or a stray letter) put in near the front or at the end
Inserted == {" ", "-", "+", "x"}
Ids ==
  BaseIds \cup {Insert(b, p, c) : b \in BaseIds, p \in 0..MaxInsertAt, c \in Inserted}
          \cup {b \o c : b \in BaseIds, c \in Inserted}

AmountNumbers ==
  {Fin(neg, b * 1000 + f) : neg \in BOOLEAN, b \in 0..MaxBaht, f \in {0, 1, 996}}
    \cup {NaN, Big(FALSE), Big(TRUE), Inf(FALSE), Inf(TRUE)}
    \cup {Wide(neg, d) : neg \in BOOLEAN, d \in {MinWide, 21}}

Amounts ==
  {JSUndefined} \cup {JSNumber(n) : n \in AmountNumbers}
    \cup {JSString(NumberToString(n)) : n \in AmountNumbers}
    \cup {JSString(str) : str \in {"", " ", "abc", " 12.5 ", "1e21", "7baht", "1e20",
                                    "00123456789.5"}}

CoreIds == {"0812345678", "66812345678", "0066812345678", "812345678901234"}
CoreAmounts == {JSUndefined, JSString("12.5")}

\* the content records of the requests: every identifier with the core
\* amounts, every amount with the core identifiers, and a missing identifier
Contents ==
  {[promptpayId |-> JSString(i), amount |-> a] : i \in Ids, a \in CoreAmounts}
    \cup {[promptpayId |-> JSString(i), amount |-> a] : i \in CoreIds, a \in Amounts}
    \cup {[promptpayId |-> JSUndefined, amount |-> a] : a \in CoreAmounts}

\* ------------------------- state ----------------------------------------

VARIABLES
  content,   \* the content record of the request
  pc,        \* "request" before the encoder has run, "done" after
  rev,       \* the revision that ran: "util" or "service" ("none" before)
  call,      \* the call of generatePromptPayPayload that encodePromptPay made
  result,    \* what the encoder returned or threw
  type,      \* the QR type of the request
  raw,       \* the raw style mapping handed to parseQRStyle
  style,     \* the style record parseQRStyle returned
  modules,   \* the module matrix of the code being rendered
  transparentBg,  \* the transparentBg argument of generateSVG
  stages,    \* the vector string after each stage of generateSVG that ran
  raster,    \* how generatePNG made its pixels
  format,    \* the format a request asks for
  faults,    \* the collaborators that throw while the request is served
  log,       \* the collaborators the request has invoked, in order
  response,  \* the response of the route
  history,   \* the entries stored under qrforge_history, newest first
  loading,   \* the entries whose thumbnail image has not loaded yet
  clock,     \* the number of saveToHistory calls so far
  cache,     \* the URLs the service worker's cache holds a response for
  answer     \* how the last fetch event was answered

vars ==
  <<content, pc, rev, call, result, type, raw, style, modules, transparentBg, stages,
    raster, format, faults, log, response, history, loading, clock, cache, answer>>

\* the page has saved nothing and the service worker has seen no fetch event
BrowserIdle ==
  history = <<>> /\ loading = {} /\ clock = 0 /\ cache = {} /\ answer = <<>>

\* generatePNG has not run
NoRaster == [via |-> "none", transparent |-> FALSE, flatten |-> "", resize |-> Undefined]

\* no request is being served
RequestIdle ==
  raster = NoRaster /\ format = "" /\ faults = {} /\ log = <<>> /\ response = <<>>

\* nothing is being rendered
RenderIdle == modules = <<>> /\ transparentBg = FALSE /\ stages = <<>>

\* no style is being parsed
StyleIdle == raw = <<>> /\ style = <<>>

Init ==
  /\ content \in Contents
  /\ pc = "request"
  /\ rev = "none"
  /\ call = NoCall("")
  /\ result = Throw("")
  /\ type = "promptpay"
  /\ StyleIdle
  /\ RenderIdle
  /\ RequestIdle
  /\ BrowserIdle

\* encodeQRContent("promptpay", content) of src/src/util/qr-encoder.ts
EncodePromptPay ==
  /\ pc = "request"
  /\ call' = promptPayCall(content)
  /\ result' = encodePromptPay(content)
  /\ rev' = "util"
  /\ pc' = "done"
  /\ UNCHANGED <<content, type, raw, style, modules, transparentBg, stages,
               raster, format, faults, log, response,
                 history, loading, clock, cache, answer>>

\* encodeQRContent("promptpay", content) of src/src/service/qr-generator.ts
svc_EncodePromptPay ==
  /\ pc = "request"
  /\ call' = svc_promptPayCall(content)
  /\ result' = svc_encodePromptPay(content)
  /\ rev' = "service"
  /\ pc' = "done"
  /\ UNCHANGED <<content, type, raw, style, modules, transparentBg, stages,
               raster, format, faults, log, response,
                 history, loading, clock, cache, answer>>

Next == EncodePromptPay \/ svc_EncodePromptPay

Spec == Init /\ [][Next]_vars

\* ------------------------- requests of every QR type --------------------

Blank == {JSUndefined, JSString(""), JSString(" ")}

UrlContents ==
  {[url |-> u] : u \in Blank \cup {JSNumber(Fin(FALSE, 0)), JSNumber(Fin(FALSE, 5000))}
                      \cup {JSString(str) : str \in
                             {"example.com", " example.com ", "http://a.b", " https://x.y/z ",
                              "HTTPS://A.b", "Http://c", "http:/d", "httpx://e", "ftp://f",
                              "https://", "a http://b"}}}

TextContents ==
  {[text |-> x] : x \in Blank \cup {JSString("hi"), JSString(" hi there "), JSBoolean(FALSE)}}

WiFiContents ==
  {[ssid |-> i, password |-> p, encryption |-> e, hidden |-> h] :
     i \in Blank \cup {JSString(str) : str \in {"Home", "Home;Net", "a;b;c", " Net ", "x\\y", "q:r"}},
     p \in {JSUndefined} \cup {JSString(str) : str \in {"p@ss", "p;w", "a,b\"c", " pw "}},
     e \in {JSUndefined} \cup {JSString(str) : str \in {"WPA", "WEP", "nopass", "W;A"}},
     h \in {JSUndefined, JSBoolean(TRUE), JSBoolean(FALSE)}
            \cup {JSString(str) : str \in {"true", "false", "yes"}}}

VCardContents ==
  {[firstName |-> f, lastName |-> l, phone |-> ph, email |-> e, org |-> o,
    title |-> ti, url |-> u] :
     f \in Blank \cup {JSString("John"), JSString(" J ")},
     l \in {JSUndefined, JSString(" "), JSString("Doe")},
     ph \in Blank \cup {JSString("021234567")},
     e \in {JSUndefined, JSString("a@b.c")},
     o \in {JSUndefined, JSString("Org")},
     ti \in {JSUndefined, JSString(" ")},
     u \in {JSUndefined, JSString(" x.y ")}}

EmailContents ==
  {[to |-> t, subject |-> sub, body |-> b] :
     t \in Blank \cup {JSString("a@b.c"), JSString(" a@b.c ")},
     sub \in {JSUndefined, JSString(""), JSString("Hi there")},
     b \in {JSUndefined, JSString("a&b=c")}}

PhoneContents ==
  {[phone |-> ph] : ph \in Blank \cup {JSString("021234567"), JSString(" 02-123 "),
                                        JSNumber(Fin(FALSE, 21000))}}

SMSContents ==
  {[phone |-> ph, message |-> m] :
     ph \in Blank \cup {JSString("0812345678")},
     m \in Blank \cup {JSString("see you"), JSString("50%")}}

LineContents ==
  {[lineId |-> i] : i \in Blank \cup {JSString(str) : str \in
                                        {"@shop", "me", " a b ", "https://line.me/x", "HTTP://l"}}}

FacebookContents ==
  {[facebookUrl |-> f] : f \in Blank \cup {JSString(str) : str \in
                                            {"zuck", " zuck ", "https://fb.com/z", "http://f"}}}

PromptPayContents ==
  {[promptpayId |-> i, amount |-> a] :
     i \in Blank \cup {JSString(str) : str \in CoreIds \cup {"12", " 081-234-5678 "}},
     a \in CoreAmounts}

\* the type and content of the requests; "barcode" is no QR type
Requests ==
  {<<"url", c>> : c \in UrlContents}
    \cup {<<"text", c>> : c \in TextContents}
    \cup {<<"wifi", c>> : c \in WiFiContents}
    \cup {<<"vcard", c>> : c \in VCardContents}
    \cup {<<"email", c>> : c \in EmailContents}
    \cup {<<"phone", c>> : c \in PhoneContents}
    \cup {<<"sms", c>> : c \in SMSContents}
    \cup {<<"line", c>> : c \in LineContents}
    \cup {<<"facebook", c>> : c \in FacebookContents}
    \cup {<<"promptpay", c>> : c \in PromptPayContents}
    \cup {<<"barcode", c>> : c \in TextContents}
    \cup {<<"url", c>> : c \in TextContents}

InitEncode ==
  /\ \E rq \in Requests : type = rq[1] /\ content = rq[2]
  /\ pc = "request"
  /\ rev = "none"
  /\ call = NoCall("")
  /\ result = Throw("")
  /\ StyleIdle
  /\ RenderIdle
  /\ RequestIdle
  /\ BrowserIdle

\* encodeQRContent(type, content) of src/src/util/qr-encoder.ts
EncodeQRContent ==
  /\ pc = "request"
  /\ result' = encodeQRContent(type, content)
  /\ rev' = "util"
  /\ pc' = "done"
  /\ UNCHANGED <<content, type, call, raw, style, modules, transparentBg, stages,
               raster, format, faults, log, response,
                 history, loading, clock, cache, answer>>

\* encodeQRContent(type, content) of src/src/service/qr-generator.ts
svc_EncodeQRContent ==
  /\ pc = "request"
  /\ result' = svc_encodeQRContent(type, content)
  /\ rev' = "service"
  /\ pc' = "done"
  /\ UNCHANGED <<content, type, call, raw, style, modules, transparentBg, stages,
               raster, format, faults, log, response,
                 history, loading, clock, cache, answer>>

NextEncode == EncodeQRContent \/ svc_EncodeQRContent

SpecEncode == InitEncode /\ [][NextEncode]_vars

\* ------------------------- raw styles -----------------------------------

\* no encoding request is running
EncodeIdle ==
  /\ type = "" /\ content = <<>> /\ rev = "none"
  /\ call = NoCall("") /\ result = Throw("")

Str(set) == {JSString(x) : x \in set}
Num(set) == {JSNumber(Fin(FALSE, x)) : x \in set}

\* values of every kind a raw field may hold that are no member of any
\* enumeration
Strays ==
  {JSUndefined, JSNull, JSBoolean(TRUE), JSBoolean(FALSE), JSNumber(Fin(FALSE, 1000))}
    \cup Str({"", "Square", "m", "dashed", "middle"})

RawWidths ==
  {JSUndefined, JSNull, JSBoolean(TRUE), JSNumber(NaN), JSNumber(Fin(TRUE, 1000))}
    \cup Num({0, 300000, 1500})
    \cup Str({"", "512", " 300 ", "0", "-5", "1.5", "1e3", "abc", "12px", "Infinity"})

RawMargins ==
  {JSUndefined, JSBoolean(FALSE), JSNumber(Fin(TRUE, 2000))}
    \cup Num({0, 1000, 4000})
    \cup Str({"0", "4", "-1", "2.5", "x"})

\* the raw style with no field set
NoRaw ==
  [f \in {"fgColor", "bgColor", "dotStyle", "ecLevel", "width", "margin", "labelText",
          "labelSize", "labelColor", "labelPosition", "borderStyle", "borderColor"}
     |-> JSUndefined]

\* raw styles: every width with every margin, and every other field varied
\* on its own
RawStyles ==
  {[NoRaw EXCEPT !.width = w, !.margin = m] : w \in RawWidths, m \in RawMargins}
    \cup {[NoRaw EXCEPT !.fgColor = v, !.bgColor = v] :
            v \in Strays \cup Str({"#ff0000"})}
    \cup {[NoRaw EXCEPT !.dotStyle = v] : v \in Strays \cup Str(VALID_DOT_STYLES)}
    \cup {[NoRaw EXCEPT !.ecLevel = v] : v \in Strays \cup Str(VALID_EC_LEVELS)}
    \cup {[NoRaw EXCEPT !.borderStyle = v] : v \in Strays \cup Str(VALID_BORDER_STYLES)}
    \cup {[NoRaw EXCEPT !.labelPosition = v] : v \in Strays \cup Str({"top", "bottom"})}
    \cup {[NoRaw EXCEPT !.labelText = v, !.labelColor = v, !.borderColor = v] :
            v \in Strays \cup Str({" hi ", " "})}
    \cup {[NoRaw EXCEPT !.labelSize = v] : v \in RawMargins}

InitStyle ==
  /\ raw \in RawStyles
  /\ style = <<>>
  /\ pc = "request"
  /\ EncodeIdle
  /\ RenderIdle
  /\ RequestIdle
  /\ BrowserIdle

\* parseQRStyle(raw)
ParseQRStyle ==
  /\ pc = "request"
  /\ style' = parseQRStyle(raw)
  /\ pc' = "done"
  /\ UNCHANGED <<content, rev, call, result, type, raw, modules, transparentBg, stages,
               raster, format, faults, log, response,
                 history, loading, clock, cache, answer>>

NextStyle == ParseQRStyle

SpecStyle == InitStyle /\ [][NextStyle]_vars

\* ------------------------- renders -------------------------------------
\* the versions of the codes rendered: a code of version v has 4v + 17
\* modules a side
MaxVersion == 2
Sizes == {4 * v + 17 : v \in 1..MaxVersion}

\* the three finder patterns of a code: a 7 by 7 block with a light ring
FinderDark(size, r, c) ==
  LET ring(dr, dc) == /\ dr \in 0..6 /\ dc \in 0..6
                      /\ ~({dr, dc} \subseteq 1..5 /\ ({dr, dc} \cap {1, 5}) # {})
  IN ring(r, c) \/ ring(r, c - (size - 7)) \/ ring(r - (size - 7), c)

\* the field of a code: what lies outside the finder patterns and the
\* light line around each
InField(size, r, c) ==
  ~(r <= 7 /\ c <= 7) /\ ~(r <= 7 /\ c >= size - 8) /\ ~(r >= size - 8 /\ c <= 7)

\* module matrices: every module dark, and the finder patterns with a
\* chequered field
Matrices ==
  {[size |-> n, data |-> [i \in 0..(n * n - 1) |-> TRUE]] : n \in Sizes}
    \cup {[size |-> n,
           data |-> [i \in 0..(n * n - 1) |->
                       \/ FinderDark(n, i \div n, i % n)
                       \/ /\ InField(n, i \div n, i % n)
                          /\ ((i \div n) + (i % n)) % 2 = 0]] :
            n \in Sizes}

\* raw styles of renders
RenderRaws ==
  {[NoRaw EXCEPT !.dotStyle = d, !.labelText = t, !.labelPosition = p,
                 !.labelSize = z, !.borderStyle = b, !.margin = m] :
     d \in Str(VALID_DOT_STYLES), t \in {JSUndefined, JSString("A&B")},
     p \in Str({"top", "bottom"}), z \in {JSUndefined, JSString("10")},
     b \in Str({"none", "round-sm", "glow", "corners"}), m \in Num({1000, 2000})}

InitRender ==
  /\ modules \in Matrices
  /\ \E r \in RenderRaws : style = parseQRStyle(r)
  /\ transparentBg \in BOOLEAN
  /\ stages = <<>>
  /\ raw = <<>>
  /\ pc = "request"
  /\ EncodeIdle
  /\ RequestIdle
  /\ BrowserIdle

\* generateSVG(data, options, style, transparentBg) of src/unnamed/part_005
GenerateSVG ==
  /\ pc = "request"
  /\ stages' = generateSVG(modules, style, transparentBg)
  /\ rev' = "part_005"
  /\ pc' = "done"
  /\ UNCHANGED <<content, call, result, type, raw, style, modules, transparentBg,
               raster, format, faults, log, response,
                 history, loading, clock, cache, answer>>

\* generateSVG(data, options, style, transparentBg) of
\* src/src/service/qr-generator.ts
svc_GenerateSVG ==
  /\ pc = "request"
  /\ stages' = svc_generateSVG(modules, style, transparentBg)
  /\ rev' = "service"
  /\ pc' = "done"
  /\ UNCHANGED <<content, call, result, type, raw, style, modules, transparentBg,
               raster, format, faults, log, response,
                 history, loading, clock, cache, answer>>

\* the fields of raster out of what generatePNG did
RasterOf(png) ==
  [via |-> png.via, transparent |-> png.transparent, flatten |-> png.flatten,
   resize |-> png.resize]

\* generatePNG(data, options, style) of src/unnamed/part_005
GeneratePNG ==
  /\ pc = "request"
  /\ \E png \in {generatePNG(modules, style)} :
       stages' = png.stages /\ raster' = RasterOf(png)
  /\ rev' = "part_005"
  /\ pc' = "done"
  /\ UNCHANGED <<content, call, result, type, raw, style, modules, transparentBg,
                 format, faults, log, response,
                 history, loading, clock, cache, answer>>

\* generatePNG(data, options, style) of src/src/service/qr-generator.ts
svc_GeneratePNG ==
  /\ pc = "request"
  /\ \E png \in {svc_generatePNG(modules, style)} :
       stages' = png.stages /\ raster' = RasterOf(png)
  /\ rev' = "service"
  /\ pc' = "done"
  /\ UNCHANGED <<content, call, result, type, raw, style, modules, transparentBg,
                 format, faults, log, response,
                 history, loading, clock, cache, answer>>

NextRender == GenerateSVG \/ svc_GenerateSVG \/ GeneratePNG \/ svc_GeneratePNG

SpecRender == InitRender /\ [][NextRender]_vars

\* ------------------------- the routes -----------------------------------
\* src/src/route/api.ts with generateQR of src/src/service/qr-generator.ts.
\* What a call gives back: the bytes it returned or the message of the error
\* it threw, and the collaborators it invoked on the way.
NoBytes == <<>>
Gave(bytes, invoked) == [ok |-> TRUE, bytes |-> bytes, error |-> "", log |-> invoked]
Threw(msg, invoked) == [ok |-> FALSE, bytes |-> NoBytes, error |-> msg, log |-> invoked]

\* the matrix the library makes of a string, which is the library's matter
ModulesOf(data) ==
  [size |-> 21, data |-> [i \in 0..440 |-> FinderDark(21, i \div 21, i % 21)
                                            \/ (i + Len(data)) % 3 = 0]]

\* new TextEncoder().encode(svgString): the whole string
EncodedSVG(done) == [mime |-> "image/svg+xml", image |-> Current(done)]

\* the buffer of sharp or of QRCode.toBuffer
EncodedPNG(png, data) ==
  [mime |-> "image/png",
   image |-> IF png.via = "vector" THEN [raster |-> RasterOf(png), of |-> Current(png.stages)]
             ELSE [raster |-> RasterOf(png), of |-> data]]

\* generateQR of src/src/service/qr-generator.ts; thrown tells the
\* collaborators that throw when invoked
svc_generateQR(data, qrStyle, fmt, thrown) ==
  IF data = "" \/ Len(trim(data)) = 0
  THEN Threw("QR content cannot be empty", <<>>)
  ELSE IF fmt = "svg"
  THEN IF "QRCode.toString" \in thrown
       THEN Threw("QRCode.toString failed", <<"QRCode.toString">>)
       ELSE Gave(EncodedSVG(svc_generateSVG(ModulesOf(data), qrStyle, FALSE)),
                 <<"QRCode.toString">>)
  ELSE Const(svc_generatePNG(ModulesOf(data), qrStyle), LAMBDA png :
         IF png.via = "vector"
         THEN IF "QRCode.toString" \in thrown
              THEN Threw("QRCode.toString failed", <<"QRCode.toString">>)
              ELSE IF "sharp" \in thrown
              THEN Threw("sharp failed", <<"QRCode.toString", "sharp">>)
              ELSE Gave(EncodedPNG(png, data), <<"QRCode.toString", "sharp">>)
         ELSE IF "QRCode.toBuffer" \in thrown
              THEN Threw("QRCode.toBuffer failed", <<"QRCode.toBuffer">>)
              ELSE Gave(EncodedPNG(png, data), <<"QRCode.toBuffer">>))

\* (body.format as "png" | "svg") || "png"
formatOf(bodyFormat) == IF bodyFormat = "" THEN "png" ELSE bodyFormat

\* the Response of the try block
imageResponse(fmt, bytes, htmx) ==
  [status |-> 200,
   contentType |-> IF htmx THEN "text/html; charset=utf-8"
                   ELSE IF fmt = "svg" THEN "image/svg+xml" ELSE "image/png",
   body |-> bytes, error |-> ""]
\* the Response of the catch block without its status
errorResponse_noStatus(message, htmx) ==
  [status |-> 200,
   contentType |-> IF htmx THEN "text/html; charset=utf-8" ELSE "application/json",
   body |-> NoBytes, error |-> message]

\* the Response of the catch block
errorResponse(message, htmx) ==
  [status |-> 422,
   contentType |-> IF htmx THEN "text/html; charset=utf-8" ELSE "application/json",
   body |-> NoBytes, error |-> message]

\* the try block of a route: encodeQRContent, parseQRStyle, generateQR with
\* the width the download route sets, and the response; width is undefined
\* for the routes that set none
serve(qrType, qrContent, rawStyle, bodyFormat, width, htmx, thrown) ==
  Const(encodeQRContent(qrType, qrContent), LAMBDA qrString :
    IF ~qrString.ok
    THEN [encoded |-> qrString, style |-> <<>>, log |-> <<>>,
          response |-> errorResponse(qrString.error, htmx)]
    ELSE Const(parseQRStyle(rawStyle), LAMBDA parsed :
      Const(IF TruthyNum(ToNumber(width))
            THEN [parsed EXCEPT !.width = ToNumber(width)] ELSE parsed, LAMBDA st :
        Const(svc_generateQR(qrString.value, st, formatOf(bodyFormat), thrown),
              LAMBDA qrBuffer :
          [encoded |-> qrString, style |-> st, log |-> qrBuffer.log,
           response |-> IF qrBuffer.ok
                        THEN imageResponse(formatOf(bodyFormat), qrBuffer.bytes, htmx)
                        ELSE errorResponse(qrBuffer.error, htmx)]))))

\* the requests the routes are given: every type, with contents that
\* encode and contents that do not
RouteRequests ==
  {<<"url", c>> : c \in UrlContents}
    \cup {<<"text", c>> : c \in TextContents}
    \cup {<<"phone", c>> : c \in PhoneContents}
    \cup {<<"sms", c>> : c \in SMSContents}
    \cup {<<"line", c>> : c \in LineContents}
    \cup {<<"facebook", c>> : c \in FacebookContents}
    \cup {<<"promptpay", c>> : c \in PromptPayContents}
    \cup {<<"barcode", c>> : c \in TextContents}
    \cup {<<"email", c>> : c \in {e \in EmailContents : e.body = JSUndefined}}
    \cup {<<"wifi", c>> : c \in {w \in WiFiContents :
                                   w.password = JSString("p@ss") /\ w.hidden = JSUndefined
                                     /\ w.encryption = JSString("WPA")}}
    \cup {<<"vcard", c>> : c \in {v \in VCardContents :
                                    v.phone = JSUndefined /\ v.email = JSUndefined
                                      /\ v.org = JSUndefined /\ v.title = JSUndefined
                                      /\ v.url = JSUndefined}}

\* raw styles of the requests: none, a label, dots
RouteStyles ==
  {NoRaw, [NoRaw EXCEPT !.labelText = JSString("Hi")],
   [NoRaw EXCEPT !.dotStyle = JSString("dots")]}

\* the collaborators: the two calls of the qrcode library and sharp
Collaborators == {"QRCode.toString", "QRCode.toBuffer", "sharp"}

InitRequest ==
  /\ \E rq \in RouteRequests : type = rq[1] /\ content = rq[2]
  /\ raw \in RouteStyles
  /\ format \in {"", "png", "svg"}
  /\ faults \in {{}} \cup {{c} : c \in Collaborators}
  /\ style = <<>> /\ log = <<>> /\ response = <<>>
  /\ raster = NoRaster
  /\ pc = "request"
  /\ rev = "none" /\ call = NoCall("") /\ result = Throw("")
  /\ RenderIdle
  /\ BrowserIdle

\* what a route leaves: the response, and what it computed on the way
Served(out) ==
  /\ response' = out.response
  /\ result' = out.encoded
  /\ style' = out.style
  /\ log' = out.log
  /\ rev' = "live"
  /\ pc' = "done"
  /\ UNCHANGED <<content, call, type, raw, modules, transparentBg, stages, raster,
                 format, faults,
                 history, loading, clock, cache, answer>>

\* POST /api/qr/generate
PostGenerate ==
  /\ pc = "request"
  /\ \E htmx \in BOOLEAN :
       Served(serve(type, content, raw, format, JSUndefined, htmx, faults))

\* GET /api/qr/generate
GetGenerate ==
  /\ pc = "request"
  /\ \E htmx \in BOOLEAN :
       Served(serve(type, content, raw, format, JSUndefined, htmx, faults))

\* GET /api/qr/download, with or without a width in the query
GetDownload ==
  /\ pc = "request"
  /\ \E width \in {JSUndefined, JSString("300")} :
       Served(serve(type, content, raw, format, width, FALSE, faults))

\* generateQR(data, style, format) called with a string of its own
GenerateQR ==
  /\ pc = "request"
  /\ \E data \in {"", " ", "hello"} :
       \E out \in {svc_generateQR(data, parseQRStyle(raw), formatOf(format), faults)} :
         /\ result' = Return(data)
         /\ style' = parseQRStyle(raw)
         /\ log' = out.log
         /\ response' = [status |-> 0, contentType |-> "", body |-> out.bytes,
                         error |-> out.error]
  /\ rev' = "service"
  /\ pc' = "done"
  /\ UNCHANGED <<content, call, type, raw, modules, transparentBg, stages, raster,
                 format, faults,
                 history, loading, clock, cache, answer>>

NextRequest == PostGenerate \/ GetGenerate \/ GetDownload \/ GenerateQR

SpecRequest == InitRequest /\ [][NextRequest]_vars

\* ------------------------- calls of generatePromptPayPayload ------------
\* the function of both revisions applied to an identifier and an amount of
\* its own: every identifier with an amount or none, and every number with
\* the core identifiers
PayloadCalls ==
  {Call(i, a) : i \in Ids, a \in {Undefined, Fin(FALSE, 12500)}}
    \cup {Call(i, a) : i \in CoreIds \cup {"+66812345678"}, a \in AmountNumbers}

InitPayload ==
  /\ call \in PayloadCalls
  /\ pc = "request"
  /\ rev = "none"
  /\ result = Throw("")
  /\ type = "" /\ content = <<>>
  /\ StyleIdle
  /\ RenderIdle
  /\ RequestIdle
  /\ BrowserIdle

\* generatePromptPayPayload(id, amount) of src/src/util/qr-encoder.ts
GeneratePromptPayPayload ==
  /\ pc = "request"
  /\ result' = generatePromptPayPayload(call.id, call.amount)
  /\ rev' = "util"
  /\ pc' = "done"
  /\ UNCHANGED <<content, call, type, raw, style, modules, transparentBg, stages,
                 raster, format, faults, log, response,
                 history, loading, clock, cache, answer>>

\* generatePromptPayPayload(id, amount) of src/src/service/qr-generator.ts
svc_GeneratePromptPayPayload ==
  /\ pc = "request"
  /\ result' = svc_generatePromptPayPayload(call.id, call.amount)
  /\ rev' = "service"
  /\ pc' = "done"
  /\ UNCHANGED <<content, call, type, raw, style, modules, transparentBg, stages,
                 raster, format, faults, log, response,
                 history, loading, clock, cache, answer>>

NextPayload == GeneratePromptPayPayload \/ svc_GeneratePromptPayPayload

SpecPayload == InitPayload /\ [][NextPayload]_vars

\* ------------------------- the qr-form route -----------------------------
\* VALID_QR_TYPES of src/src/type/index.ts
VALID_QR_TYPES ==
  <<"url", "text", "wifi", "vcard", "email", "phone", "sms", "line", "facebook">>

\* Array.prototype.includes
includes(array, x) == \E i \in 1..Len(array) : array[i] = x

\* the handler of GET /partials/qr-form/:type: the body is the partial
\* qr-form-<type> the template engine renders
qrFormPartial(t) ==
  IF ~includes(VALID_QR_TYPES, t)
  THEN [status |-> 400, contentType |-> "text/plain;charset=UTF-8",
        body |-> "Invalid QR type", error |-> "Invalid QR type"]
  ELSE [status |-> 200, contentType |-> "text/html; charset=utf-8",
        body |-> "qr-form-" \o t, error |-> ""]

\* a type and a content, as for encodeQRContent
InitTypes == InitEncode

\* GET /partials/qr-form/:type
QrFormPartial ==
  /\ pc = "request"
  /\ response' = qrFormPartial(type)
  /\ rev' = "live"
  /\ pc' = "done"
  /\ UNCHANGED <<content, type, call, result, raw, style, modules, transparentBg,
                 stages, raster, format, faults, log,
                 history, loading, clock, cache, answer>>

NextTypes == EncodeQRContent \/ svc_EncodeQRContent \/ QrFormPartial

SpecTypes == InitTypes /\ [][NextTypes]_vars

\* ------------------------- saveToHistory, src/public/js/app.js -----------
MAX_HISTORY == 50

\* the saveToHistory calls of a behaviour
MaxSaves == 3

\* the lengths of the history the page finds stored
StoredLengths == {0, 1, MAX_HISTORY - 1, MAX_HISTORY}

\* the entry of the n-th call, kept by the number of its call, which orders
\* the entries as their id and createdAt do
Entry(n, thumbnail) == [id |-> n, thumbnail |-> thumbnail]

\* a history stored by n earlier calls, one entry a call
Stored(n) == [i \in 1..n |-> Entry(1 - i, "")]

\* the test of the length as >= in the place of >
unshift_popsAtLimit(stored, entry) ==
  IF Len(stored) + 1 >= MAX_HISTORY THEN <<entry>> \o SubSeq(stored, 1, Len(stored) - 1)
  ELSE <<entry>> \o stored

\* history.unshift(entry); if (history.length > MAX_HISTORY) history.pop()
unshift(stored, entry) ==
  Const(<<entry>> \o stored, LAMBDA h :
    IF Len(h) > MAX_HISTORY THEN SubSeq(h, 1, Len(h) - 1) ELSE h)

\* persistEntry(thumbData): what is stored after it; throws holds the
\* attempts (1 the first, 2 the one without thumbnail) in which setItem
\* throws
persistEntry(stored, entry, thumbData, throws) ==
  IF 1 \notin throws THEN unshift(stored, [entry EXCEPT !.thumbnail = thumbData])
  ELSE IF thumbData # "" /\ 2 \notin throws
       THEN unshift(stored, [entry EXCEPT !.thumbnail = ""])
       ELSE stored

\* the save of src/unnamed/part_004: the preview is the thumbnail, and a
\* throwing setItem leaves the stored history alone
p4_persist(stored, entry, preview, throws) ==
  IF throws # {} THEN stored ELSE unshift(stored, [entry EXCEPT !.thumbnail = preview])

InitHistory ==
  /\ \E n \in StoredLengths : history = Stored(n)
  /\ loading = {} /\ clock = 0
  /\ cache = {} /\ answer = <<>>
  /\ pc = "request"
  /\ EncodeIdle
  /\ StyleIdle
  /\ RenderIdle
  /\ RequestIdle

\* saveToHistory(): with a data: preview the entry waits for its thumbnail
\* image, without one it is persisted at once
SaveToHistory ==
  /\ rev \in {"none", "live"}
  /\ clock < MaxSaves
  /\ \E srcDataUrl \in {"", "data:preview"}, throws \in SUBSET {1, 2} :
       IF srcDataUrl # ""
       THEN /\ loading' = loading \cup {Entry(clock + 1, "")}
            /\ history' = history
       ELSE /\ history' = persistEntry(history, Entry(clock + 1, ""), "", throws)
            /\ loading' = loading
  /\ clock' = clock + 1
  /\ rev' = "live"
  /\ UNCHANGED <<content, pc, call, result, type, raw, style, modules, transparentBg,
                 stages, raster, format, faults, log, response, cache, answer>>

\* img.onload and img.onerror of a thumbnail image: the canvas gives the
\* thumbnail, or throws, or the image fails, and the entry is persisted
ImgSettled ==
  /\ rev = "live"
  /\ \E entry \in loading, thumbData \in {"", "data:thumb"}, throws \in SUBSET {1, 2} :
       /\ history' = persistEntry(history, entry, thumbData, throws)
       /\ loading' = loading \ {entry}
  /\ UNCHANGED <<content, pc, rev, call, result, type, raw, style, modules,
                 transparentBg, stages, raster, format, faults, log, response,
                 clock, cache, answer>>

\* saveToHistory() of src/unnamed/part_004
p4_SaveToHistory ==
  /\ rev \in {"none", "part_004"}
  /\ clock < MaxSaves
  /\ \E preview \in {"", "data:preview"}, throws \in SUBSET {1} :
       history' = p4_persist(history, Entry(clock + 1, ""), preview, throws)
  /\ clock' = clock + 1
  /\ rev' = "part_004"
  /\ UNCHANGED <<content, pc, call, result, type, raw, style, modules, transparentBg,
                 stages, raster, format, faults, log, response, loading, cache, answer>>

NextHistory == SaveToHistory \/ ImgSettled \/ p4_SaveToHistory

SpecHistory == InitHistory /\ [][NextHistory]_vars

\* ------------------------- the service worker ----------------------------
\* The two revisions of the worker script, src/unnamed/part_002 and
\* src/unnamed/part_003. The cache is kept as the set of the URLs it holds a
\* response for; the activate handlers delete other caches only.
Origin == "https://qr.app"

\* urlsToCache, resolved against the origin of the page
urlsToCache ==
  {Origin \o "/", Origin \o "/css/custom.css", Origin \o "/js/app.js",
   Origin \o "/manifest.json"}

\* String.prototype.startsWith and String.prototype.includes
startsWith(s, prefix) == Slice(s, 1, Len(prefix)) = prefix
stringIncludes(s, part) == \E i \in 1..Len(s) : Slice(s, i, i + Len(part) - 1) = part

\* the requests the pages and others make
FetchUrls ==
  {Origin \o "/", Origin \o "/js/app.js", Origin \o "/api/qr/generate?type=url",
   Origin \o "/api/qr/download?type=url", "https://cdn.app/htmx.js",
   "chrome-extension://abc/api/inject.js"}
FetchRequests == [url : FetchUrls, method : {"GET", "POST"}]

\* what the network gives: no response, or one with a status and a type
Offline == [ok |-> FALSE, status |-> 0, type |-> "error"]
NetworkResponses ==
  {Offline} \cup [ok : {TRUE}, status : {200, 422}, type : {"basic", "cors"}]

\* how a fetch event was answered, and what the cache holds after it
Answered(request, from, held) ==
  [url |-> request.url, method |-> request.method, from |-> from, cache |-> held]

\* the handler returns without respondWith: the browser fetches
passThrough(held, request, net) ==
  Answered(request, IF net.ok THEN "network" ELSE "none", held)

\* caches.match(request): a response for the URL of a GET request
match(held, request) == request.method = "GET" /\ request.url \in held

\* the test before a response is cloned into the cache
cacheable(net) == net.ok /\ net.status = 200 /\ net.type = "basic"

\* cache.put(request, response), which takes GET requests only
put(held, request) == IF request.method = "GET" THEN held \cup {request.url} ELSE held

\* the fetch listener of src/unnamed/part_002: cache first, then network
fetch_002(held, request, net) ==
  IF ~startsWith(request.url, "http") THEN passThrough(held, request, net)
  ELSE IF stringIncludes(request.url, "/api/") THEN passThrough(held, request, net)
  ELSE IF match(held, request) THEN Answered(request, "cache", held)
  ELSE IF ~net.ok THEN Answered(request, "none", held)
  ELSE IF ~cacheable(net) THEN Answered(request, "network", held)
  ELSE Answered(request, "network", put(held, request))

\* the fetch listener of src/unnamed/part_003: network first, then cache
fetch_003(held, request, net) ==
  IF request.method # "GET" THEN passThrough(held, request, net)
  ELSE IF net.ok
       THEN Answered(request, "network",
                     IF cacheable(net) THEN put(held, request) ELSE held)
       ELSE Answered(request, IF match(held, request) THEN "cache" ELSE "none", held)

InitWorker ==
  /\ cache = {} /\ answer = <<>>
  /\ history = <<>> /\ loading = {} /\ clock = 0
  /\ pc = "request"
  /\ EncodeIdle
  /\ StyleIdle
  /\ RenderIdle
  /\ RequestIdle

\* the install listener of part_002: addAll stores all of urlsToCache or,
\* failing, nothing, and the failure is caught
Install_002 ==
  /\ rev = "none"
  /\ cache' \in {urlsToCache, {}}
  /\ rev' = "part_002"
  /\ UNCHANGED <<content, pc, call, result, type, raw, style, modules, transparentBg,
                 stages, raster, format, faults, log, response, history, loading,
                 clock, answer>>

\* the install listener of part_003: a worker whose addAll fails is not
\* installed, so the worker that runs has stored urlsToCache
Install_003 ==
  /\ rev = "none"
  /\ cache' = urlsToCache
  /\ rev' = "part_003"
  /\ UNCHANGED <<content, pc, call, result, type, raw, style, modules, transparentBg,
                 stages, raster, format, faults, log, response, history, loading,
                 clock, answer>>

\* a fetch event in the worker of part_002
Fetch_002 ==
  /\ rev = "part_002"
  /\ \E request \in FetchRequests, net \in NetworkResponses :
       /\ answer' = [fetch_002(cache, request, net) EXCEPT !.cache = {}]
       /\ cache' = fetch_002(cache, request, net).cache
  /\ UNCHANGED <<content, pc, rev, call, result, type, raw, style, modules,
                 transparentBg, stages, raster, format, faults, log, response,
                 history, loading, clock>>

\* a fetch event in the worker of part_003
Fetch_003 ==
  /\ rev = "part_003"
  /\ \E request \in FetchRequests, net \in NetworkResponses :
       /\ answer' = [fetch_003(cache, request, net) EXCEPT !.cache = {}]
       /\ cache' = fetch_003(cache, request, net).cache
  /\ UNCHANGED <<content, pc, rev, call, result, type, raw, style, modules,
                 transparentBg, stages, raster, format, faults, log, response,
                 history, loading, clock>>

NextWorker == Install_002 \/ Install_003 \/ Fetch_002 \/ Fetch_003

SpecWorker == InitWorker /\ [][NextWorker]_vars

TypeOK ==
  /\ pc \in {"request", "done"}
  /\ rev \in {"none", "util", "service", "part_005", "live", "part_002", "part_003", "part_004"}
  /\ call.made \in BOOLEAN
  /\ result.ok \in BOOLEAN

\* ------------------------- reading a payload back -----------------------
\* Independent of the builders: a payload is read as a scanner reads it.

\* the fields of a string of tag(2) length(2 decimal digits) value triples
ParseTLV(s) ==
  LET go[pos \in 1..(Len(s) + 1)] ==
        IF pos > Len(s) THEN [ok |-> TRUE, fields |-> <<>>]
        ELSE LET digits == Slice(s, pos + 2, pos + 3)
                 n == IF Len(digits) = 2 /\ AllDigits(digits) THEN DigitsToNat(digits) ELSE 0
             IN IF Len(digits) # 2 \/ ~AllDigits(digits) \/ pos + 4 + n > Len(s) + 1
                THEN [ok |-> FALSE, fields |-> <<>>]
                ELSE [ok |-> go[pos + 4 + n].ok,
                      fields |-> <<[tag |-> Slice(s, pos, pos + 1),
                                    value |-> Slice(s, pos + 4, pos + 3 + n)]>>
                                 \o go[pos + 4 + n].fields]
  IN go[1]

Tags(fields) == [i \in 1..Len(fields) |-> fields[i].tag]

\* the value of the first field with the given tag ("" when there is none)
ValueOf(fields, tag) ==
  LET at == {i \in 1..Len(fields) : fields[i].tag = tag}
  IN IF at = {} THEN "" ELSE fields[CHOOSE i \in at : \A k \in at : i <= k].value

HasTag(fields, tag) == \E i \in 1..Len(fields) : fields[i].tag = tag

\* the account-id field: the second field nested in field 29
AccountField(payload) ==
  LET inner == ParseTLV(ValueOf(ParseTLV(payload).fields, "29")).fields
  IN IF Len(inner) >= 2 THEN inner[2] ELSE [tag |-> "", value |-> ""]

\* CRC-16/CCITT-FALSE by its definition: a 16-bit shift register, all ones at
\* the start, fed the message bits most significant first, feedback
\* polynomial x^16 + x^12 + x^5 + 1, no reflection, no final xor.
RefPoly == {0, 5, 12}

RefStep(reg, bit) ==
  [k \in 0..15 |-> (IF k = 0 THEN FALSE ELSE reg[k - 1])
                   # ((reg[15] # bit) /\ k \in RefPoly)]

RefCrc(data) ==
  LET bitAt(b) == BitSet(charCodeAt(data, (b \div 8) + 1), 7 - (b % 8))
      go[lo \in 0..(8 * Len(data)), hi \in -1..(8 * Len(data) - 1),
         reg \in [0..15 -> BOOLEAN]] ==
        IF lo > hi THEN reg
        ELSE IF lo = hi THEN RefStep(reg, bitAt(lo))
        ELSE go[((lo + hi) \div 2) + 1, hi, go[lo, (lo + hi) \div 2, reg]]
      final == go[0, 8 * Len(data) - 1, [k \in 0..15 |-> TRUE]]
      nibble(i) == (IF final[4 * i] THEN 1 ELSE 0) + (IF final[4 * i + 1] THEN 2 ELSE 0)
                   + (IF final[4 * i + 2] THEN 4 ELSE 0) + (IF final[4 * i + 3] THEN 8 ELSE 0)
      hex(v) == charAt("0123456789ABCDEF", v + 1)
  IN hex(nibble(3)) \o hex(nibble(2)) \o hex(nibble(1)) \o hex(nibble(0))

UpperHex == {charAt("0123456789ABCDEF", i) : i \in 1..16}

\* ------------------------- the request seen from outside ----------------

Done == pc = "done"
Returned == Done /\ result.ok

\* generatePromptPayPayload was called
Called == Done /\ call.made

\* the identifier of the call after the normalization of the revision that ran
Normalized == IF rev = "util" THEN sanitize(call.id) ELSE svc_cleanId(call.id)

\* the identifier with spaces, dashes and plus signs removed
Stripped(id) == removeAll(id, {" ", "-", "+"})

\* the number an amount field stands for
AmountValue(a) ==
  CASE a.t = "number" -> a.n
    [] a.t = "string" -> parseFloat(a.s)
    [] OTHER -> Undefined

\* C1: a returned payload ends in "6304" and four uppercase hex digits that
\* are the CRC-16/CCITT-FALSE of everything before them, "6304" included.
C1_ChecksumOverPrefix ==
  Returned =>
    LET p == result.value
        body == Slice(p, 1, Len(p) - 4)
        check == Slice(p, Len(p) - 3, Len(p))
    IN /\ Len(p) >= 8
       /\ Slice(body, Len(body) - 3, Len(body)) = "6304"
       /\ \A i \in 1..4 : charAt(check, i) \in UpperHex
       /\ check = RefCrc(body)

\* a payload with an amount whose checksum has a letter among its digits
C1_Witness ==
  /\ Returned
  /\ HasTag(ParseTLV(result.value).fields, "54")
  /\ \E i \in 0..3 : charAt(result.value, Len(result.value) - i) \in {"A", "B", "C", "D", "E", "F"}

\* the five identifier patterns of the specification, with their account tags
Pattern(k, n) ==
  CASE k = 1 -> IsDigitsN(n, 13)
    [] k = 2 -> IsPrefixDigitsN(n, "0", 9)
    [] k = 3 -> IsPrefixDigitsN(n, "66", 9)
    [] k = 4 -> IsPrefixDigitsN(n, "0066", 9)
    [] k = 5 -> IsDigitsN(n, 15)

PatternTag(k) == IF k = 1 THEN "02" ELSE IF k = 5 THEN "03" ELSE "01"

Matching(n) == {k \in 1..5 : Pattern(k, n)}

\* C2: an identifier that, with spaces, dashes and plus signs removed, matches
\* none of the five patterns makes the encoder fail and return no payload.
C2_UnmatchedIdentifierFails ==
  Done =>
    (Matching(Stripped(StringOrEmpty(content.promptpayId))) = {}
       => ~result.ok /\ result.value = "")

\* C3: no normalized identifier satisfies more than one of the five patterns,
\* and the account tag of a payload is the tag of every pattern its
\* identifier satisfies, whatever the order of the tests.
C3_PatternsExclusive ==
  Called =>
    /\ Cardinality(Matching(Normalized)) <= 1
    /\ result.ok =>
         \A k \in Matching(Normalized) : AccountField(result.value).tag = PatternTag(k)

\* C4: an identifier that normalizes to "0066" and 9 digits is emitted under
\* account tag "01" with the identifier unchanged as the value.
C4_InternationalPassthrough ==
  Called /\ IsPrefixDigitsN(Normalized, "0066", 9) =>
    /\ result.ok
    /\ AccountField(result.value) = [tag |-> "01", value |-> Normalized]

\* C5: a Thai mobile identifier is emitted under account tag "01" as "0066"
\* and 9 digits: "0" and 9 digits becomes "0066" and its last nine digits,
\* "66" and 9 digits becomes "00" and the identifier.
C5_MobileRewritten ==
  /\ Called /\ IsPrefixDigitsN(Normalized, "0", 9) =>
       /\ result.ok
       /\ AccountField(result.value) =
            [tag |-> "01", value |-> "0066" \o Slice(Normalized, 2, 10)]
       /\ IsPrefixDigitsN(AccountField(result.value).value, "0066", 9)
  /\ Called /\ IsPrefixDigitsN(Normalized, "66", 9) =>
       /\ result.ok
       /\ AccountField(result.value) = [tag |-> "01", value |-> "00" \o Normalized]
       /\ IsPrefixDigitsN(AccountField(result.value).value, "0066", 9)

\* a mobile number written with a separator, rewritten to the 0066 form
C5_Witness ==
  /\ Called /\ result.ok
  /\ IsPrefixDigitsN(Normalized, "0", 9)
  /\ call.id # Normalized
  /\ AccountField(result.value).value = "0066812345678"

OutcomeFor(id) ==
  LET c == [content EXCEPT !.promptpayId = JSString(id)]
      r == IF rev = "util" THEN encodePromptPay(c) ELSE svc_encodePromptPay(c)
  IN [ok |-> r.ok, value |-> r.value]

\* C7: an identifier and the same identifier without its spaces, dashes and
\* plus signs either both fail or both give the same payload for the amount.
C7_SeparatorsIgnored ==
  Done /\ content.promptpayId.t = "string" =>
    [ok |-> result.ok, value |-> result.value]
      = OutcomeFor(Stripped(content.promptpayId.s))

\* C8: a returned payload is, in this order and with nothing else, the fields
\* 00 = "01", 01, 29 (holding 00 = the PromptPay application id and the
\* account-id field), 53 = "764", optionally 54, 58 = "TH", then "6304" and
\* the four characters of the checksum.
C8_FieldOrder ==
  Returned =>
    LET top == ParseTLV(result.value)
        inner == ParseTLV(ValueOf(top.fields, "29"))
    IN /\ top.ok
       /\ Tags(top.fields) \in {<<"00", "01", "29", "53", "58", "63">>,
                                <<"00", "01", "29", "53", "54", "58", "63">>}
       /\ ValueOf(top.fields, "00") = "01"
       /\ ValueOf(top.fields, "53") = "764"
       /\ ValueOf(top.fields, "58") = "TH"
       /\ Len(ValueOf(top.fields, "63")) = 4
       /\ inner.ok
       /\ Len(inner.fields) = 2
       /\ inner.fields[1] = [tag |-> "00", value |-> AID]
       /\ inner.fields[2].tag \in {"01", "02", "03"}

\* a payload with all seven fields
C8_Witness ==
  /\ Returned
  /\ Len(ParseTLV(result.value).fields) = 7

\* value is the number n written with exactly two decimal places
TwoDecimals(value, n) ==
  /\ n.k = "fin"
  /\ Len(value) >= 4
  /\ charAt(value, Len(value) - 2) = "."
  /\ AllDigits(Slice(value, 1, Len(value) - 3))
  /\ AllDigits(Slice(value, Len(value) - 1, Len(value)))
  /\ LET h == DigitsToNat(Slice(value, 1, Len(value) - 3)) * 100
              + DigitsToNat(Slice(value, Len(value) - 1, Len(value)))
     IN h * 10 - n.m \in -5..5

\* C9: in a returned payload field 54 is present exactly when the amount is
\* greater than 0, its value is the amount with exactly two decimal places,
\* and field 01 is "12" when field 54 is present and "11" when it is not.
C9_AmountField ==
  Returned =>
    LET fields == ParseTLV(result.value).fields
        amount == AmountValue(content.amount)
    IN /\ HasTag(fields, "54") <=> GtZero(amount)
       /\ HasTag(fields, "54") => TwoDecimals(ValueOf(fields, "54"), amount)
       /\ ValueOf(fields, "01") = IF HasTag(fields, "54") THEN "12" ELSE "11"

\* C10: a content record with a negative amount makes the encoder fail and
\* return no payload, whatever the identifier.
C10_NegativeAmountFails ==
  Done /\ LtZero(AmountValue(content.amount)) => ~result.ok /\ result.value = ""

\* a negative amount with an identifier that would have been accepted
C10_Witness ==
  /\ Done /\ ~result.ok
  /\ LtZero(AmountValue(content.amount))
  /\ Matching(Stripped(StringOrEmpty(content.promptpayId))) # {}

\* ------------------------- C11: the checksum under a changed character ---

\* crc16 of a string given by its char codes (UTF-16 code units)
crc16OfCodes(codes) == padStart(HexUpper[crcLoop[codes, 1, Len(codes), 65535]], 4, "0")

\* other code units for a character: its neighbour, itself with the top bit
\* of the low byte flipped, and the code unit 256 above it
OtherCodes(c) == {(c + 1) % 65536, (c + 128) % 65536, (c + 256) % 65536}

\* the request is one of the core requests
CoreRequest ==
  /\ content.promptpayId.t = "string"
  /\ content.promptpayId.s \in CoreIds
  /\ content.amount \in CoreAmounts

\* encoding the request of the state once more, with the revision that ran
EncodedAgain ==
  IF rev = "util" THEN encodePromptPay(content) ELSE svc_encodePromptPay(content)

\* C11: encoding the same identifier and amount again gives the same payload,
\* and replacing any one character of the checksummed part of a payload (all
\* but its last four characters) by a different character changes the
\* CRC-16 computed over it.
C11_ChecksumStable ==
  Returned /\ CoreRequest =>
    LET body == Slice(result.value, 1, Len(result.value) - 4)
        codes == charCodes(body)
    IN /\ EncodedAgain = result
       /\ crc16OfCodes(codes) = crc16(body)
       /\ \A i \in 1..Len(codes) : \A c \in OtherCodes(codes[i]) :
            crc16OfCodes([codes EXCEPT ![i] = c]) # crc16OfCodes(codes)

\* the same with the replacing character confined to the code units that
\* differ from the replaced one in the low byte
C11_ChecksumStableInLowByte ==
  Returned /\ CoreRequest =>
    LET body == Slice(result.value, 1, Len(result.value) - 4)
        codes == charCodes(body)
    IN /\ EncodedAgain = result
       /\ crc16OfCodes(codes) = crc16(body)
       /\ \A i \in 1..Len(codes) : \A c \in OtherCodes(codes[i]) :
            (c % 256 # codes[i] % 256)
              => crc16OfCodes([codes EXCEPT ![i] = c]) # crc16OfCodes(codes)

\* ------------------------- C12..C16: the other encoders -----------------

\* the field of the request as text, when it is a string
IsText(name) == name \in DOMAIN content /\ content[name].t = "string"
TextOf(name) == IF IsText(name) THEN content[name].s ELSE ""

\* s starts with prefix, letters compared without regard to case
StartsWithNoCase(s, prefix, PREFIX) ==
  /\ Len(s) >= Len(prefix)
  /\ \A i \in 1..Len(prefix) : charAt(s, i) \in {charAt(prefix, i), charAt(PREFIX, i)}

\* s carries the http:// or https:// scheme
HasScheme(s) ==
  StartsWithNoCase(s, "http://", "HTTP://") \/ StartsWithNoCase(s, "https://", "HTTPS://")

\* C12: for a url that is not empty after trimming, the output is the trimmed
\* url when it starts with http:// or https://, and "https://" followed by
\* the trimmed url when it does not.
C12_UrlScheme ==
  Done /\ type = "url" /\ IsText("url") /\ trim(TextOf("url")) # "" =>
    /\ result.ok
    /\ result.value = IF HasScheme(trim(TextOf("url"))) THEN trim(TextOf("url"))
                      ELSE "https://" \o trim(TextOf("url"))

\* a url with a scheme and blanks around it, returned trimmed and as it is
C12_Witness ==
  /\ Done /\ type = "url" /\ result.ok
  /\ TextOf("url") = " https://x.y/z "
  /\ result.value = "https://x.y/z"

\* every WiFi-reserved character of s with a backslash put before it
EscapeAll(s) ==
  LET go[i \in 0..Len(s)] ==
        IF i = 0 THEN ""
        ELSE go[i - 1] \o (IF charAt(s, i) \in {"\\", ";", ",", "\"", ":"} THEN "\\" ELSE "")
                      \o charAt(s, i)
  IN go[Len(s)]

\* the values the wifi encoder writes: the trimmed ssid, the password or "",
\* the encryption or WPA, and hidden as true or false
WiFiSsid == trim(TextOf("ssid"))
WiFiPassword == TextOf("password")
WiFiEncryption == IF TextOf("encryption") = "" THEN "WPA" ELSE TextOf("encryption")
WiFiHidden ==
  IF "hidden" \in DOMAIN content /\ content.hidden \in {JSBoolean(TRUE), JSString("true")}
  THEN "true" ELSE "false"

\* C13: the wifi output is WIFI:T:<enc>;S:<ssid>;P:<password>;H:<hidden>;;
\* where every reserved character (backslash, semicolon, comma, double quote,
\* colon) of the three values has a backslash before it and hidden is the
\* literal true or false.
C13_WiFiEscaped ==
  Done /\ type = "wifi" /\ result.ok =>
    result.value = "WIFI:T:" \o EscapeAll(WiFiEncryption)
                   \o ";S:" \o EscapeAll(WiFiSsid)
                   \o ";P:" \o EscapeAll(WiFiPassword)
                   \o ";H:" \o WiFiHidden \o ";;"

\* the positions of the backslashes of s that escape the character after them
EscapingAt(s) ==
  LET escaping[i \in 0..Len(s)] ==
        IF i = 0 THEN FALSE ELSE charAt(s, i) = "\\" /\ ~escaping[i - 1]
  IN {i \in 1..Len(s) : escaping[i]}

\* the positions of the semicolons of s that no backslash escapes
UnescapedSemicolons(s) ==
  {i \in 1..Len(s) : charAt(s, i) = ";" /\ (i - 1) \notin EscapingAt(s)}

\* s without its escaping backslashes
Unescape(s) ==
  LET go[i \in 0..Len(s)] ==
        IF i = 0 THEN ""
        ELSE go[i - 1] \o (IF i \in EscapingAt(s) THEN "" ELSE charAt(s, i))
  IN go[Len(s)]

\* the parts of s between its unescaped semicolons
SplitFields(s) ==
  LET cuts == UnescapedSemicolons(s)
      start(i) == i = 1 \/ (i - 1) \in cuts
      stop(i) == CHOOSE j \in (cuts \cup {Len(s) + 1}) :
                   j >= i /\ \A k \in (cuts \cup {Len(s) + 1}) : k >= i => j <= k
  IN {Slice(s, i, stop(i) - 1) : i \in {k \in 1..Len(s) : start(k) /\ k \notin cuts}}

\* the unescaped value of the field of a WIFI string with the given key
ReadWiFi(s, key) ==
  LET body == Slice(s, 6, Len(s))
      found == {f \in SplitFields(body) : Slice(f, 1, Len(key)) = key}
  IN {Unescape(Slice(f, Len(key) + 1, Len(f))) : f \in found}

\* C14: reading the wifi output back, by splitting it at its unescaped
\* semicolons and removing the escaping backslashes, gives the ssid, the
\* password, the encryption and the hidden value that were encoded.
C14_WiFiRoundTrip ==
  Done /\ type = "wifi" /\ result.ok =>
    /\ Slice(result.value, 1, 5) = "WIFI:"
    /\ ReadWiFi(result.value, "T:") = {WiFiEncryption}
    /\ ReadWiFi(result.value, "S:") = {WiFiSsid}
    /\ ReadWiFi(result.value, "P:") = {WiFiPassword}
    /\ ReadWiFi(result.value, "H:") = {WiFiHidden}

\* the field the encoder of a QR type requires (one of them, for vcard)
RequiredFields ==
  CASE type = "url" -> {"url"}
    [] type = "text" -> {"text"}
    [] type = "wifi" -> {"ssid"}
    [] type = "vcard" -> {"firstName", "lastName"}
    [] type = "email" -> {"to"}
    [] type = "phone" -> {"phone"}
    [] type = "sms" -> {"phone"}
    [] type = "line" -> {"lineId"}
    [] type = "facebook" -> {"facebookUrl"}
    [] type = "promptpay" -> {"promptpayId"}
    [] OTHER -> {}

\* the field is missing, empty or whitespace-only
IsBlank(name) ==
  \/ name \notin DOMAIN content
  \/ content[name] = JSUndefined
  \/ content[name].t = "string" /\ trim(content[name].s) = ""

\* C15: when the required field of the type (each of the two names, for
\* vcard) is missing, empty or whitespace-only, encodeQRContent fails with an
\* error and returns no string; a string it returns is never empty.
C15_RequiredFields ==
  Done =>
    /\ (RequiredFields # {} /\ \A f \in RequiredFields : IsBlank(f)) => ~result.ok
    /\ ~result.ok => result.value = "" /\ result.error # ""
    /\ result.ok => result.value # ""

\* a vcard request with one name missing and the other whitespace-only
C15_Witness ==
  /\ Done /\ type = "vcard" /\ ~result.ok
  /\ content.firstName = JSUndefined
  /\ content.lastName = JSString(" ")

\* the k-th smallest member of a set of numbers
Nth(set, k) == CHOOSE x \in set : Cardinality({y \in set : y <= x}) = k

\* the lines of s, which "\n" separates
SplitLines(s) ==
  LET breaks == {i \in 1..Len(s) : charAt(s, i) = "\n"}
      n == Cardinality(breaks)
  IN [k \in 1..(n + 1) |->
        Slice(s, IF k = 1 THEN 1 ELSE Nth(breaks, k - 1) + 1,
                 IF k = n + 1 THEN Len(s) ELSE Nth(breaks, k) - 1)]

\* the line of an optional vcard field: there when the field has a value
VCardLine(name, label) ==
  IF trim(TextOf(name)) # "" THEN <<label \o trim(TextOf(name))>> ELSE <<>>

\* C16: the vcard output is the lines BEGIN:VCARD, VERSION:3.0,
\* N:<last>;<first>;;;, FN:<first> <last> without a space before or after a
\* single name, then the TEL, EMAIL, ORG, TITLE and URL lines of the fields
\* that have a value, in that order, then END:VCARD.
C16_VCardLines ==
  Done /\ type = "vcard" /\ result.ok =>
    SplitLines(result.value) =
      <<"BEGIN:VCARD",
        "VERSION:3.0",
        "N:" \o trim(TextOf("lastName")) \o ";" \o trim(TextOf("firstName")) \o ";;;",
        "FN:" \o trim(trim(TextOf("firstName")) \o " " \o trim(TextOf("lastName")))>>
      \o VCardLine("phone", "TEL:")
      \o VCardLine("email", "EMAIL:")
      \o VCardLine("org", "ORG:")
      \o VCardLine("title", "TITLE:")
      \o VCardLine("url", "URL:")
      \o <<"END:VCARD">>

\* ------------------------- C17, C18: the style record -------------------

\* parseQRStyle has returned
StyleParsed == pc = "done" /\ raw # <<>>

\* the field resolves to its raw value when that is a member of the
\* enumeration and to the default when it is not
Resolved(name, enumeration, default) ==
  /\ raw[name] \in {JSString(x) : x \in enumeration} => style[name] = raw[name].s
  /\ raw[name] \notin {JSString(x) : x \in enumeration} => style[name] = default

\* the raw values that leave a field unset
Unset == {JSUndefined, JSNull, JSString("")}

\* C17: parseQRStyle returns a complete style record for every raw mapping
\* of strings, numbers, booleans, null and missing values; dotStyle, ecLevel,
\* borderStyle and labelPosition resolve to square, M, none and bottom when
\* the raw value is outside the enumeration, and fgColor and bgColor to
\* #000000 and #ffffff when unset.
C17_StyleDefaults ==
  StyleParsed =>
    /\ DOMAIN style = DOMAIN NoRaw
    /\ Resolved("dotStyle", {"square", "rounded", "dots"}, "square")
    /\ Resolved("ecLevel", {"L", "M", "Q", "H"}, "M")
    /\ Resolved("borderStyle",
                {"none", "round-sm", "round-lg", "glow", "corners", "gradient"}, "none")
    /\ Resolved("labelPosition", {"top", "bottom"}, "bottom")
    /\ raw.fgColor \in Unset => style.fgColor = "#000000"
    /\ raw.bgColor \in Unset => style.bgColor = "#ffffff"

\* a dot style in the wrong case, resolved to square
C17_Witness ==
  /\ StyleParsed
  /\ raw.dotStyle = JSString("Square")
  /\ style.dotStyle = "square"

\* n is a whole number
IsInteger(n) == n.k = "fin" /\ n.m % 1000 = 0

\* raw values that are missing or stand for no number
NoNumber == {JSUndefined, JSNumber(NaN), JSString("abc"), JSString("12px"), JSString("x")}

\* C18: the width of the returned style is a positive integer and its margin
\* a non-negative integer, 512 and 2 when the raw value is missing or
\* unparsable.
C18_WidthAndMargin ==
  StyleParsed =>
    /\ IsInteger(style.width) /\ GtZero(style.width)
    /\ IsInteger(style.margin) /\ ~LtZero(style.margin)
    /\ raw.width \in NoNumber => style.width = Fin(FALSE, 512000)
    /\ raw.margin \in NoNumber => style.margin = Fin(FALSE, 2000)

\* ------------------------- C19, C20 ------------------------------------
Rendered == pc = "done" /\ stages # <<>>

\* the string the base render left
BaseOf(done) == done[1].svg

\* the three 7 by 7 finder regions of a matrix of n modules a side
InFinderRegion(n, r, c) ==
  \/ r \in 0..6 /\ c \in 0..6
  \/ r \in 0..6 /\ c \in (n - 7)..(n - 1)
  \/ r \in (n - 7)..(n - 1) /\ c \in 0..6

\* a plain square of one module at column c and row r, the margin aside
PlainSquare(c, r, margin) ==
  [tag |-> "rect", x |-> c * 1000 + margin, y |-> r * 1000 + margin,
   width |-> 1000, height |-> 1000, r |-> 0]

\* the primitive of a module that is styled as the dotStyle asks
StyledModule(c, r, margin, dotStyle) ==
  CASE dotStyle = "dots" ->
         [tag |-> "circle", x |-> c * 1000 + margin + 500, y |-> r * 1000 + margin + 500,
          width |-> 0, height |-> 0, r |-> 450]
    [] dotStyle = "rounded" ->
         [tag |-> "rect", x |-> c * 1000 + margin, y |-> r * 1000 + margin,
          width |-> 1000, height |-> 1000, r |-> 350]
    [] OTHER -> PlainSquare(c, r, margin)

\* the base render drew its modules one by one
DrawnOneByOne(svg) == Len(svg.elements) = 1 /\ svg.elements[1].tag = "g"

\* what the base render has to hold for a matrix: a plain square for each
\* dark module of a finder region and a styled primitive for each other one
ExpectedModules(matrix, margin, dotStyle) ==
  {IF InFinderRegion(matrix.size, i \div matrix.size, i % matrix.size)
   THEN PlainSquare(i % matrix.size, i \div matrix.size, margin)
   ELSE StyledModule(i % matrix.size, i \div matrix.size, margin, dotStyle) :
     i \in {j \in DOMAIN matrix.data : matrix.data[j]}}

\* C19: for every module matrix of size N >= 21 and every dotStyle, each
\* dark module of the three 7 by 7 finder regions is emitted as a plain
\* 1 by 1 square with no corner radius, and no dark module outside those
\* regions is treated as a finder module: it gets the primitive of the
\* dotStyle. Where the base render is the library's, its one path draws
\* every dark module as a square.
C19_FinderSquares ==
  (Rendered /\ modules.size >= 21) =>
    IF DrawnOneByOne(BaseOf(stages))
    THEN LET drawn == BaseOf(stages).elements[1].children
         IN /\ {drawn[k] : k \in 1..Len(drawn)}
                 = ExpectedModules(modules, Value(style.margin), style.dotStyle)
            /\ Len(drawn) = Cardinality({j \in DOMAIN modules.data : modules.data[j]})
    ELSE /\ BaseOf(stages).elements[2].tag = "path"
         /\ BaseOf(stages).elements[2].squares = modules.data

\* a matrix of 25 modules a side rendered with dots: the dark module at the
\* inner corner of the bottom-left finder region is a plain square and the
\* dark module above it is a circle
C19_Witness ==
  /\ Rendered /\ rev = "part_005" /\ style.dotStyle = "dots"
  /\ modules.size = 25 /\ modules.data[18 * 25 + 6] /\ modules.data[17 * 25 + 6]
  /\ DrawnOneByOne(BaseOf(stages))
  /\ \E k \in 1..Len(BaseOf(stages).elements[1].children) :
       BaseOf(stages).elements[1].children[k]
         = PlainSquare(6, 18, Value(style.margin))
  /\ \E k \in 1..Len(BaseOf(stages).elements[1].children) :
       BaseOf(stages).elements[1].children[k]
         = StyledModule(6, 17, Value(style.margin), "dots")

\* the place of a stage in the pipeline
StageRank(name) ==
  CASE name = "base" -> 1 [] name = "label" -> 2 [] name = "border" -> 3
    [] name = "dimensions" -> 4 [] OTHER -> 0

\* the viewBox a stage left, as numbers
BoxAfter(done, i) == viewBoxOf(done[i].svg.viewBox)

\* the group the border stage put the earlier content in
ContentGroup(svg) == svg.elements[Len(svg.elements)]

\* the border stage at place i took the box the stage before it left, put
\* the same padding on every side of it and moved the content inside
FrameEncloses(done, i) ==
  LET inner == BoxAfter(done, i - 1)
      outer == BoxAfter(done, i)
      grp == ContentGroup(done[i].svg)
      left == Value(inner.x) + Value(grp.dx)
      top == Value(inner.y) + Value(grp.dy)
  IN /\ Value(outer.x) = 0 /\ Value(outer.y) = 0
     /\ grp.tag = "g" /\ grp.children = done[i - 1].svg.elements
     /\ left > 0 /\ top > 0
     /\ left + Value(inner.w) + left = Value(outer.w)
     /\ top + Value(inner.h) + top = Value(outer.h)

\* the label stage at place i made the box taller
LabelExpands(done, i) ==
  /\ Value(BoxAfter(done, i).h) > Value(BoxAfter(done, i - 1).h)
  /\ Value(BoxAfter(done, i).w) = Value(BoxAfter(done, i - 1).w)

\* C20: in every render the stages run in the order base render, label
\* overlay, border overlay, dimension finalization: the border stage is
\* never followed by the label stage, and the border's box is computed from
\* the viewbox already expanded by the label, so the frame encloses both
\* label and code.
C20_StageOrder ==
  Rendered =>
    /\ stages[1].stage = "base"
    /\ stages[Len(stages)].stage = "dimensions"
    /\ \A i \in 2..Len(stages) :
         /\ StageRank(stages[i - 1].stage) < StageRank(stages[i].stage)
         /\ stages[i].stage = "label" => LabelExpands(stages, i)
         /\ stages[i].stage = "border" => FrameEncloses(stages, i)
    /\ (Truthy(style.labelText)) = (\E i \in 1..Len(stages) : stages[i].stage = "label")
    /\ (style.borderStyle # "none") = (\E i \in 1..Len(stages) : stages[i].stage = "border")

\* a render with a label on top and a border: all four stages ran, and the
\* frame was put around a box that begins above the code
C20_Witness ==
  /\ Rendered /\ Len(stages) = 4
  /\ stages[2].stage = "label" /\ stages[3].stage = "border"
  /\ style.labelPosition = "top"
  /\ Value(BoxAfter(stages, 2).y) < 0
  /\ FrameEncloses(stages, 3)

\* ------------------------- C21 .. C23 ----------------------------------
\* the place of a stage in the record of a render, 0 when it did not run
PlaceOf(done, name) ==
  IF \E i \in 1..Len(done) : done[i].stage = name
  THEN CHOOSE i \in 1..Len(done) : done[i].stage = name
  ELSE 0

\* fontSize = (viewbox width) * labelSize / 100
LabelFontSize(width, labelSize) == Times(width, Over(labelSize, 100))

\* 2 * gap + fontSize with gap = 0.8 * fontSize
LabelDelta(width, labelSize) ==
  Plus(Times(Whole(2), Times(Milli(800), LabelFontSize(width, labelSize))),
       LabelFontSize(width, labelSize))

\* 2 * 6% of a width
BorderDelta(width) == Times(Whole(2), Times(Milli(60), width))

\* the label stage at place i kept the width, added LabelDelta to the height
\* and put the strip above the code for top and below it for bottom
LabelStripAt(done, i, labelSize, position) ==
  LET before == BoxAfter(done, i - 1)
      after == BoxAfter(done, i)
      delta == LabelDelta(before.w, labelSize)
  IN /\ after.w = before.w
     /\ after.x = before.x
     /\ after.h = Plus(before.h, delta)
     /\ after.y = IF position = "top" THEN Minus(before.y, delta) ELSE before.y

\* C21: the label overlay leaves the viewbox width unchanged and increases
\* the viewbox height by exactly 2*gap + fontSize, where fontSize is the
\* viewbox width times labelSize / 100 and gap is 0.8 * fontSize; for top
\* the strip lies above the code (min-y decreases by that amount), for
\* bottom below it (min-y unchanged).
C21_LabelDelta ==
  (Rendered /\ PlaceOf(stages, "label") > 0) =>
    LabelStripAt(stages, PlaceOf(stages, "label"), style.labelSize, style.labelPosition)

\* C21 for the revision of src/unnamed/part_005 alone, which has no
\* Math.round
C21_LabelDeltaUnrounded ==
  (Rendered /\ PlaceOf(stages, "label") > 0 /\ rev = "part_005") =>
    LabelStripAt(stages, PlaceOf(stages, "label"), style.labelSize, style.labelPosition)

\* the border stage at place i added BorderDelta of the width before it to
\* both dimensions, put the origin at (0, 0) and moved the content by
\* (padding - oldMinX, padding - oldMinY)
BorderBoxAt(done, i) ==
  LET before == BoxAfter(done, i - 1)
      after == BoxAfter(done, i)
      padding == Times(Milli(60), before.w)
      grp == ContentGroup(done[i].svg)
  IN /\ after.w = Plus(before.w, BorderDelta(before.w))
     /\ after.h = Plus(before.h, BorderDelta(before.w))
     /\ after.x = Whole(0) /\ after.y = Whole(0)
     /\ grp.tag = "g"
     /\ grp.dx = Minus(padding, before.x)
     /\ grp.dy = Minus(padding, before.y)
     /\ grp.children = done[i - 1].svg.elements

\* C22: for every borderStyle other than none, the border overlay increases
\* both the viewbox width and the viewbox height by exactly 2 * 6% of the
\* pre-border width, resets the origin to (0, 0) and translates the existing
\* content by (padding - oldMinX, padding - oldMinY), so that it occupies
\* the box inset by padding on all four sides.
C22_BorderDelta ==
  (Rendered /\ style.borderStyle # "none") =>
    /\ PlaceOf(stages, "border") > 0
    /\ BorderBoxAt(stages, PlaceOf(stages, "border"))

\* C22 for the revision of src/unnamed/part_005 alone
C22_BorderDeltaUnrounded ==
  (Rendered /\ style.borderStyle # "none" /\ rev = "part_005") =>
    /\ PlaceOf(stages, "border") > 0
    /\ BorderBoxAt(stages, PlaceOf(stages, "border"))

\* the final box against the box of the base render, with a label and a
\* border
BothDeltas(done, labelSize) ==
  LET base == BoxAfter(done, 1)
      final == BoxAfter(done, Len(done))
  IN /\ final.w = Plus(base.w, BorderDelta(base.w))
     /\ final.h = Plus(Plus(base.h, LabelDelta(base.w, labelSize)), BorderDelta(base.w))

\* C23: when both a label and a border are applied, the final viewbox
\* height is the base height plus the label delta (2*gap + fontSize) plus
\* the border delta (2 * 6% of width), and the final width is the base width
\* plus the border delta, for both label positions.
C23_BothDeltas ==
  (Rendered /\ PlaceOf(stages, "label") > 0 /\ PlaceOf(stages, "border") > 0) =>
    BothDeltas(stages, style.labelSize)

\* C23 for the revision of src/unnamed/part_005 alone
C23_BothDeltasUnrounded ==
  (/\ Rendered /\ PlaceOf(stages, "label") > 0 /\ PlaceOf(stages, "border") > 0
   /\ rev = "part_005") =>
    BothDeltas(stages, style.labelSize)

\* ------------------------- C24 -----------------------------------------
Rastered == pc = "done" /\ raster.via # "none"

\* at least one overlay is applied
HasOverlay(st) ==
  \/ st.labelText.t = "string" /\ st.labelText.s # ""
  \/ st.borderStyle # "none"
  \/ st.dotStyle # "square"

\* C24: for PNG output the vector path (compose the SVG with a transparent
\* background, then rasterize and flatten onto bgColor) is taken if and only
\* if at least one overlay is applied (non-empty labelText, borderStyle other
\* than none, or dotStyle other than square); otherwise the native raster
\* output of the library is used and no vector stage runs.
C24_VectorPath ==
  Rastered =>
    IF HasOverlay(style)
    THEN /\ raster.via = "vector" /\ stages # <<>>
         /\ raster.transparent /\ raster.flatten = style.bgColor
    ELSE raster.via = "native" /\ stages = <<>>

\* C24 for the revision of src/unnamed/part_005 alone
C24_VectorPathStyled ==
  (Rastered /\ rev = "part_005") =>
    IF HasOverlay(style)
    THEN /\ raster.via = "vector" /\ stages # <<>>
         /\ raster.transparent /\ raster.flatten = style.bgColor
    ELSE raster.via = "native" /\ stages = <<>>

\* what the service revision does: the vector path, with an opaque
\* background, exactly when there is a label or a border
C24_VectorPathService ==
  (Rastered /\ rev = "service") =>
    IF Truthy(style.labelText) \/ style.borderStyle # "none"
    THEN /\ raster.via = "vector" /\ stages # <<>>
         /\ ~raster.transparent /\ raster.flatten = style.bgColor
    ELSE raster.via = "native" /\ stages = <<>>

\* ------------------------- C25 -----------------------------------------
Responded == pc = "done" /\ rev = "live"

\* the collaborators that were invoked
Invoked == {log[i] : i \in 1..Len(log)}

\* a success response: status 200 and the whole image, of the format asked
\* for and with its final dimensions when it is a vector
SuccessResponse ==
  /\ response.status = 200 /\ response.error = ""
  /\ response.body # NoBytes
  /\ response.body.mime = (IF format = "svg" THEN "image/svg+xml" ELSE "image/png")
  /\ format = "svg" => /\ response.body.image.width = style.width
                       /\ response.body.image.height.k = "fin"
  /\ result.ok /\ log # <<>> /\ Invoked \cap faults = {}

\* an error response: status 422, the message and no image
FailureResponse ==
  /\ response.status = 422 /\ response.error # ""
  /\ response.body = NoBytes
  /\ ~result.ok \/ (log # <<>> /\ log[Len(log)] \in faults)

\* C25: each generate or download request ends in exactly one of two
\* outcomes, a success response carrying the complete image bytes or an
\* error response (status 422) carrying the failure message and no image
\* bytes; a failure in encoding, in the empty-content check or in a
\* collaborator never yields partial output, and an encoding failure occurs
\* before any module generation or rasterization is invoked.
C25_OneOutcome ==
  /\ Responded =>
       /\ SuccessResponse \/ FailureResponse
       /\ ~(SuccessResponse /\ FailureResponse)
       /\ ~result.ok => (log = <<>> /\ response.error = result.error)
  /\ (pc = "done" /\ rev = "service" /\ style # <<>> /\ response # <<>>) =>
       /\ (response.body = NoBytes) = (response.error # "")
       /\ Len(trim(result.value)) = 0 =>
            (response.error = "QR content cannot be empty" /\ log = <<>>)

\* a png with a label whose rasterization failed: the vector was composed,
\* sharp threw, and the response is the error with no bytes
C25_Witness ==
  /\ Responded /\ result.ok
  /\ log = <<"QRCode.toString", "sharp">> /\ faults = {"sharp"}
  /\ response.status = 422 /\ response.error = "sharp failed"
  /\ response.body = NoBytes

\* a request whose encoding failed
C25_WitnessEncoding ==
  Responded /\ ~result.ok /\ response.status = 422 /\ log = <<>>

\* a request that succeeded
C25_WitnessSuccess == Responded /\ SuccessResponse

\* a direct call that the empty-content check refused
C25_WitnessEmpty ==
  /\ pc = "done" /\ rev = "service" /\ response # <<>>
  /\ response.error = "QR content cannot be empty"

\* ------------------------- C26 -----------------------------------------
\* the fields of a payload, and the fields nested in its field 29
TopFields == ParseTLV(result.value)
NestedFields == ParseTLV(ValueOf(TopFields.fields, "29"))

\* every field has a tag of 2 characters and a value of fewer than 100
FieldsFit(fields) ==
  \A i \in 1..Len(fields) : Len(fields[i].tag) = 2 /\ Len(fields[i].value) < 100

\* the length of the whole of a list of fields, 4 characters of tag and
\* length for each
WholeLength[fields \in Seq([tag : STRING, value : STRING])] ==
  IF fields = <<>> THEN 0
  ELSE 4 + Len(fields[1].value) + WholeLength[Tail(fields)]

\* C26: in every PromptPay payload that can be produced (any accepted
\* identifier, any amount below 10^21), each TLV field is a 2-character tag,
\* a length of exactly 2 decimal digits equal to the character count of the
\* value, then the value; no value reaches 100 characters, so the length
\* never widens to 3 digits. The payload is read field by field and has to
\* come out as the fields 00, 01, 29, 53, 54 (with an amount), 58, 63, and
\* field 29 as the fields 00 and 01, 02 or 03, with nothing left over.
C26_TlvLengths ==
  (Returned /\ call.amount.k # "big" /\ call.amount.k # "inf") =>
    /\ TopFields.ok /\ NestedFields.ok
    /\ Tags(TopFields.fields)
         = (IF TruthyNum(call.amount)
            THEN <<"00", "01", "29", "53", "54", "58", "63">>
            ELSE <<"00", "01", "29", "53", "58", "63">>)
    /\ Len(NestedFields.fields) = 2
    /\ NestedFields.fields[1] = [tag |-> "00", value |-> "A000000677010111"]
    /\ NestedFields.fields[2].tag \in {"01", "02", "03"}
    /\ FieldsFit(TopFields.fields) /\ FieldsFit(NestedFields.fields)
    /\ WholeLength[TopFields.fields] = Len(result.value)
    /\ WholeLength[NestedFields.fields] = Len(ValueOf(TopFields.fields, "29"))

\* a payload with an amount of 21 integer digits: field 54 holds 24
\* characters, the longest amount there is, under the length 24
C26_Witness ==
  /\ Returned /\ call.amount.k = "wide" /\ call.amount.m = 21
  /\ TopFields.ok
  /\ Len(ValueOf(TopFields.fields, "54")) = 24
  /\ \E i \in 1..(Len(result.value) - 3) : Slice(result.value, i, i + 3) = "5424"

\* ------------------------- C27 -----------------------------------------
\* what the other revision gives for the identifier and the amount of the
\* call
OtherRevision ==
  IF rev = "util" THEN svc_generatePromptPayPayload(call.id, call.amount)
  ELSE generatePromptPayPayload(call.id, call.amount)

C27_SamePayloadNotNegative ==
  (Returned /\ OtherRevision.ok /\ ~LtZero(call.amount)) =>
    result.value = OtherRevision.value

\* a 13-digit identifier that begins with 0066, which the service revision
\* tests for 13 digits before its mobile patterns: both revisions return the
\* same payload with the account under tag 02
C27_Witness ==
  /\ Returned /\ OtherRevision.ok
  /\ call.id = "0066812345678" /\ call.amount = Fin(FALSE, 12500)
  /\ AccountField(result.value).tag = "02"
  /\ result.value = OtherRevision.value

\* ------------------------- C28 -----------------------------------------
\* the switch of encodeQRContent has a case for the type of the request
Dispatched == result.error # "Unsupported QR type: " \o type

\* the switch of the util revision would have a case for the type of the
\* request to the form route
WouldDispatch ==
  encodeQRContent(type, content).error # "Unsupported QR type: " \o type

FormAnswered == pc = "done" /\ rev = "live"

\* C28: the set of QR types is the same closed set of ten values everywhere
\* it is checked: every type encodeQRContent dispatches on (promptpay
\* included) is a member of VALID_QR_TYPES and is accepted by the type check
\* of the qr-form route, and every member of VALID_QR_TYPES is dispatched by
\* encodeQRContent.
C28_SameTypes ==
  /\ (Done /\ rev \in {"util", "service"}) =>
       (Dispatched <=> includes(VALID_QR_TYPES, type))
  /\ FormAnswered => (response.status = 200 <=> WouldDispatch)

\* the half of C28 that holds: every member of VALID_QR_TYPES is dispatched
\* by encodeQRContent, and the form route accepts the members and nothing
\* else
C28_MembersDispatched ==
  /\ (Done /\ rev \in {"util", "service"} /\ includes(VALID_QR_TYPES, type)) =>
       Dispatched
  /\ FormAnswered =>
       /\ response.status = 200 <=> includes(VALID_QR_TYPES, type)
       /\ response.status = 200 => WouldDispatch

\* the form route turns promptpay away, a type encodeQRContent dispatches
C28_PromptPayTurnedAway ==
  /\ FormAnswered /\ type = "promptpay"
  /\ WouldDispatch
  /\ response.status = 400

\* ------------------------- C29 -----------------------------------------
\* the ids of the entries of a history, first to last
IdsOf(h) == [i \in 1..Len(h) |-> h[i].id]

\* the entries a step may be writing: the entry of the call being made and
\* the entries whose thumbnail was loading
BeingSaved == {clock'} \cup {e.id : e \in loading}

\* the history without its oldest entry when it is full
RoomMade(h) == IF Len(h) = MAX_HISTORY THEN SubSeq(h, 1, MAX_HISTORY - 1) ELSE h

\* C29: after any sequence of saveToHistory calls starting from a stored
\* history of at most 50 entries, the stored history holds at most 50
\* entries, the most recently saved entry is first, entries stay in reverse
\* order of saving, and a save on a full history drops exactly the oldest
\* entry: every step that writes the history puts one entry that was not in
\* it before the entries it held, in their order, less the last one when
\* there were 50.
C29_NewestFirst ==
  /\ [](Len(history) <= MAX_HISTORY)
  /\ [][history' # history =>
          /\ history'[1].id \in BeingSaved
          /\ \A i \in 1..Len(history) : history[i].id # history'[1].id
          /\ Tail(history') = RoomMade(history)]_vars

\* in the revision of part_004, which writes the entry inside the call, the
\* entries are also in reverse order of the calls
C29_ReverseOfCalls ==
  rev = "part_004" =>
    \A i \in 1..Len(history), j \in 1..Len(history) :
      i < j => history[i].id > history[j].id

\* a history of 50 entries has taken a save: it holds 50 entries, the entry
\* saved is first, the 49 newest of the old entries follow, and the
\* oldest, the entry of id -49, is gone
C29_Witness ==
  /\ Len(history) = MAX_HISTORY
  /\ clock = 1 /\ history[1].id = 1 /\ loading = {}
  /\ Tail(history) = SubSeq(Stored(MAX_HISTORY), 1, MAX_HISTORY - 1)
  /\ \A i \in 1..Len(history) : history[i].id # 1 - MAX_HISTORY

\* ------------------------- C30 -----------------------------------------
IsApi(url) == stringIncludes(url, "/api/")

\* a fetch event for a URL with /api/ in it has been answered
ApiAnswered == answer # <<>> /\ IsApi(answer.url)

\* C30: after any sequence of fetch events handled by the service worker,
\* no response to a request whose URL contains "/api/" has been stored in
\* the cache, so API requests are always answered from the network and
\* never from a cached copy.
C30_ApiNeverCached ==
  /\ \A url \in cache : ~IsApi(url)
  /\ ApiAnswered => answer.from # "cache"

\* C30 for the worker of part_002, which returns before respondWith when
\* the URL has /api/ in it
C30_ApiSkipped ==
  rev = "part_002" =>
    /\ \A url \in cache : ~IsApi(url)
    /\ ApiAnswered => answer.from # "cache"

\* the worker of part_002 has let a GET of an API URL through to the
\* network while its cache holds what it stored of other requests
C30_SkippedWitness ==
  /\ rev = "part_002" /\ ApiAnswered
  /\ answer.method = "GET" /\ answer.from = "network"
  /\ cache # {} /\ cache # urlsToCache

\* the worker of part_003 answers a GET of an API URL from its cache
C30_ApiFromCache ==
  /\ rev = "part_003" /\ ApiAnswered
  /\ answer.from = "cache" /\ answer.url \in cache

====
